---- MODULE Spec2Model ----
(***************************************************************************)
(* rcproxy: the single-threaded event-loop request-forwarding engine.      *)
(*                                                                         *)
(* Bytes are one-character strings and byte slices are sequences of them.  *)
(* Go errors are strings, "nil" being the nil error; a run-time panic of   *)
(* the Go code is reported by the field `panic`.                           *)
(***************************************************************************)
EXTENDS Integers, Sequences, FiniteSets, TLC

\* ------------------------------------------------------------------------
\* Bounds of the model
\* ------------------------------------------------------------------------
NClients == 1
\* requests read in the complete environment (Spec) and by the pipelining
\* client without closes and timeouts (SpecPipe)
MaxMsgs == 1
MaxPipeMsgs == 3
MaxConns == 3
RequestTimeout == 2
MsgMaxLength == 20
\* CRespCodec.MsgMaxLength, the longest request the client codec accepts
CMsgMaxLength == 42
\* requests the client of the inline-reply harness sends
MaxInlineMsgs == 2
\* Options.ServerRetryTimeout in milliseconds, and how far the clock of the
\* ban harness runs
ServerRetryTimeout == 2
MaxNow == 3
MaxAggKeys == 3

\* ------------------------------------------------------------------------
\* core/codec/buff.go : in-place buffer
\* ------------------------------------------------------------------------
CR == "\r"
LF == "\n"
LFCRByte == <<CR, LF>>

Digits == <<"0", "1", "2", "3", "4", "5", "6", "7", "8", "9">>

IsDigit(b) == \E i \in 1..10 : Digits[i] = b

DigitVal(b) == (CHOOSE i \in 1..10 : Digits[i] = b) - 1

RECURSIVE Itoa(_)
Itoa(n) ==
    IF n < 0 THEN <<"-">> \o Itoa(0 - n)
    ELSE IF n < 10 THEN <<Digits[n + 1]>>
    ELSE Itoa(n \div 10) \o <<Digits[(n % 10) + 1]>>

HasPrefix(s, p) == Len(s) >= Len(p) /\ SubSeq(s, 1, Len(p)) = p

\* bytes.IndexByte: 0-based index of the first c in s, -1 when there is none
IndexByte(s, c) ==
    IF \E i \in 1..Len(s) : s[i] = c
    THEN (CHOOSE i \in 1..Len(s) : s[i] = c /\ \A j \in 1..(i - 1) : s[j] # c) - 1
    ELSE -1

NewBuffer(bs) == [buf |-> bs, r |-> 0]

leftSize(b) == Len(b.buf) - b.r

leftBuf(b) == SubSeq(b.buf, b.r + 1, Len(b.buf))

ReadBuf(b) == SubSeq(b.buf, 1, b.r)

ReadN(b, n) ==
    IF leftSize(b) < 1 THEN [b |-> b, val |-> <<>>, err |-> "EmptyLine"]
    ELSE IF n > leftSize(b) THEN [b |-> b, val |-> <<>>, err |-> "ShortLine"]
    ELSE [b |-> [b EXCEPT !.r = b.r + n],
          val |-> SubSeq(b.buf, b.r + 1, b.r + n), err |-> "nil"]

ReadLine(b) ==
    IF leftSize(b) < 1 THEN [b |-> b, val |-> <<>>, err |-> "EmptyLine"]
    ELSE LET idx == IndexByte(leftBuf(b), LF) IN
         IF idx = -1 THEN [b |-> b, val |-> <<>>, err |-> "ErrLFNotFound"]
         ELSE LET rn == ReadN(b, idx + 1) IN
              IF rn.err # "nil" THEN rn
              ELSE IF idx < 2 THEN [b |-> rn.b, val |-> <<>>, err |-> "EmptyLine"]
              ELSE IF rn.val[idx] # CR
                   THEN [b |-> rn.b, val |-> <<>>, err |-> "ErrCRNotFound"]
              ELSE [b |-> rn.b, val |-> SubSeq(rn.val, 1, Len(rn.val) - 2),
                    err |-> "nil"]

\* ------------------------------------------------------------------------
\* parseLen (length prefixes)
\* ------------------------------------------------------------------------
RECURSIVE parseLenLoop(_, _, _)
parseLenLoop(p, i, n) ==
    IF i > Len(p) THEN [n |-> n, err |-> "nil"]
    ELSE IF ~IsDigit(p[i]) THEN [n |-> -1, err |-> "ErrInvalidResp"]
    ELSE parseLenLoop(p, i + 1, n * 10 + DigitVal(p[i]))

parseLen(p) ==
    IF Len(p) < 1 THEN [n |-> -1, err |-> "malformed length"]
    ELSE IF p[1] = "-" /\ Len(p) = 2 /\ p[2] = "1" THEN [n |-> -1, err |-> "nil"]
    ELSE parseLenLoop(p, 1, 0)

\* ------------------------------------------------------------------------
\* Shard codec: reply classification
\* ------------------------------------------------------------------------
OK == <<"+", "O", "K", CR, LF>>
PONG == <<"+", "P", "O", "N", "G", CR, LF>>
ErrUnKnown ==
    <<"-", "E", "R", "R", " ", "u", "n", "k", "n", "o", "w", "n", " ", "e", "r", "r", "o",
      "r", CR, LF>>
ErrUnKnownCommand ==
    <<"-", "E", "R", "R", " ", "u", "n", "k", "n", "o", "w", "n", " ", "c", "o", "m", "m",
      "a", "n", "d", CR, LF>>
ErrMsgReqTooLarge ==
    <<"-", "E", "R", "R", " ", "r", "e", "q", " ", "m", "s", "g", " ", "l", "e", "n",
      "g", "t", "h", " ", "t", "o", "o", " ", "l", "a", "r", "g", "e", CR, LF>>
ErrMsgReqWrongArgumentsNumber ==
    <<"-", "E", "R", "R", " ", "w", "r", "o", "n", "g", " ", "n", "u", "m", "b", "e",
      "r", " ", "o", "f", " ", "a", "r", "g", "u", "m", "e", "n", "t", "s", CR, LF>>
ErrAuthInvalidPassword ==
    <<"-", "E", "R", "R", " ", "i", "n", "v", "a", "l", "i", "d", " ", "p", "a", "s",
      "s", "w", "o", "r", "d", CR, LF>>
ErrAuthNeedNtPassword ==
    <<"-", "E", "R", "R", " ", "C", "l", "i", "e", "n", "t", " ", "s", "e", "n", "t",
      " ", "A", "U", "T", "H", ",", " ", "b", "u", "t", " ", "n", "o", " ", "p", "a",
      "s", "s", "w", "o", "r", "d", " ", "i", "s", " ", "s", "e", "t", CR, LF>>
ErrUnKnownSlot ==
    <<"-", "E", "R", "R", " ", "u", "n", "k", "n", "o", "w", "n", " ", "s", "l", "o", "t",
      CR, LF>>
ErrUnKnownProxyPoolError ==
    <<"-", "E", "R", "R", " ", "u", "n", "k", "n", "o", "w", "n", " ", "p", "r", "o", "x",
      "y", " ", "p", "o", "o", "l", CR, LF>>
ErrUnKnownProxyPoolConnError ==
    <<"-", "E", "R", "R", " ", "u", "n", "k", "n", "o", "w", "n", " ", "p", "r", "o", "x",
      "y", " ", "p", "o", "o", "l", " ", "c", "o", "n", "n", CR, LF>>
ErrMsgRspTooLarge ==
    <<"-", "E", "R", "R", " ", "r", "s", "p", " ", "m", "s", "g", " ", "l", "e", "n", "g",
      "t", "h", " ", "t", "o", "o", " ", "l", "a", "r", "g", "e", CR, LF>>
ErrMsgRequestTimeout ==
    <<"-", "E", "R", "R", " ", "p", "r", "o", "x", "y", " ", "r", "e", "q", "u", "e", "s",
      "t", " ", "t", "i", "m", "e", "o", "u", "t", CR, LF>>

\* Error.ShortString / Status.ShortString: the line without its CRLF
ShortString(s) == SubSeq(s, 1, Len(s) - 2)

NoAuthPrefix ==
    <<"-", "N", "O", "A", "U", "T", "H", " ", "A", "u", "t", "h", "e", "n", "t", "i", "c",
      "a", "t", "i", "o", "n", " ", "r", "e", "q", "u", "i", "r", "e", "d">>
AuthFailedPrefix ==
    <<"-", "E", "R", "R", " ", "i", "n", "v", "a", "l", "i", "d", " ", "p", "a", "s", "s",
      "w", "o", "r", "d">>
NeedNtAuthPrefix ==
    <<"-", "E", "R", "R", " ", "C", "l", "i", "e", "n", "t", " ", "s", "e", "n", "t", " ",
      "A", "U", "T", "H", ",", " ", "b", "u", "t", " ", "n", "o", " ", "p", "a", "s", "s",
      "w", "o", "r", "d", " ", "i", "s", " ", "s", "e", "t">>
NeedNtAuthPrefix2 ==
    <<"-", "E", "R", "R", " ", "A", "U", "T", "H", " ", "<", "p", "a", "s", "s", "w", "o",
      "r", "d", ">", " ", "c", "a", "l", "l", "e", "d", " ", "w", "i", "t", "h", "o", "u",
      "t", " ", "a", "n", "y", " ", "p", "a", "s", "s", "w", "o", "r", "d", " ", "c", "o",
      "n", "f", "i", "g", "u", "r", "e", "d", " ", "f", "o", "r", " ", "t", "h", "e", " ",
      "d", "e", "f", "a", "u", "l", "t", " ", "u", "s", "e", "r", ".">>
MovedPrefix == <<"-", "M", "O", "V", "E", "D">>
AskPrefix == <<"-", "A", "S", "K">>

ErrorLineType(line) ==
    IF HasPrefix(line, NoAuthPrefix) THEN "RspNeedAuth"
    ELSE IF HasPrefix(line, AuthFailedPrefix) THEN "RspAuthFailed"
    ELSE IF HasPrefix(line, NeedNtAuthPrefix) \/ HasPrefix(line, NeedNtAuthPrefix2)
         THEN "RspNeedNtAuth"
    ELSE IF HasPrefix(line, MovedPrefix) THEN "RspMoved"
    ELSE IF HasPrefix(line, AskPrefix) THEN "RspAsk"
    ELSE "RspError"

RECURSIVE readReply(_)
RECURSIVE readReplyN(_, _)
readReply(b0) ==
    LET rl == ReadLine(b0) IN
    IF rl.err # "nil" THEN [b |-> rl.b, type |-> "UNKNOWN", err |-> rl.err]
    ELSE IF Len(rl.val) = 0 THEN [b |-> rl.b, type |-> "UNKNOWN", err |-> "BadLine"]
    ELSE LET line == rl.val
             b == rl.b
         IN
         CASE line[1] = "+" ->
                [b |-> b, err |-> "nil",
                 type |-> IF HasPrefix(line, ShortString(OK)) THEN "RspOk"
                          ELSE IF HasPrefix(line, ShortString(PONG)) THEN "RspPong"
                          ELSE "RspStatus"]
           [] line[1] = ":" -> [b |-> b, type |-> "RspInteger", err |-> "nil"]
           [] line[1] = "-" -> [b |-> b, type |-> ErrorLineType(line), err |-> "nil"]
           [] line[1] = "$" ->
                LET pl == parseLen(Tail(line)) IN
                IF pl.err # "nil" THEN [b |-> b, type |-> "UNKNOWN", err |-> pl.err]
                ELSE IF pl.n < 0 THEN [b |-> b, type |-> "RspBulk", err |-> "nil"]
                ELSE LET body == ReadN(b, pl.n) IN
                     IF body.err # "nil"
                     THEN [b |-> body.b, type |-> "UNKNOWN", err |-> body.err]
                     ELSE LET crlf == ReadN(body.b, 2) IN
                          IF crlf.err # "nil"
                          THEN [b |-> crlf.b, type |-> "UNKNOWN", err |-> crlf.err]
                          ELSE IF crlf.val[1] # CR \/ crlf.val[2] # LF
                          THEN [b |-> crlf.b, type |-> "UNKNOWN",
                                err |-> "ErrInvalidResp"]
                          ELSE [b |-> crlf.b, type |-> "RspBulk", err |-> "nil"]
           [] line[1] = "*" ->
                LET pl == parseLen(Tail(line)) IN
                IF pl.n < 0 \/ pl.err # "nil"
                THEN [b |-> b, type |-> "UNKNOWN", err |-> pl.err]
                ELSE LET rest == readReplyN(b, pl.n) IN
                     IF rest.err # "nil"
                     THEN [b |-> rest.b, type |-> "UNKNOWN", err |-> rest.err]
                     ELSE [b |-> rest.b, type |-> "RspMultibulk", err |-> "nil"]
           [] OTHER -> [b |-> b, type |-> "UNKNOWN", err |-> "ErrInvalidResp"]

readReplyN(b, n) ==
    IF n = 0 THEN [b |-> b, err |-> "nil"]
    ELSE LET one == readReply(b) IN
         IF one.err # "nil" THEN [b |-> one.b, err |-> one.err]
         ELSE readReplyN(one.b, n - 1)

sizeTooLarge(size) == size > MsgMaxLength

\* strings.Split on a one-byte separator
RECURSIVE Split(_, _)
Split(s, sep) ==
    LET i == IndexByte(s, sep) IN
    IF i = -1 THEN <<s>>
    ELSE <<SubSeq(s, 1, i)>> \o Split(SubSeq(s, i + 2, Len(s)), sep)

\* Frag.parseMovedOrAsk: the address named by a MOVED/ASK line ("" when none)
parseMovedOrAsk(f) ==
    IF Len(f.RspBody) < 10 THEN <<>>
    ELSE IF f.Type \notin {"RspMoved", "RspAsk"} THEN <<>>
    ELSE LET i == IF f.Type = "RspMoved" THEN 7 ELSE 5
             l == Split(SubSeq(f.RspBody, i + 1, Len(f.RspBody) - 2), " ")
         IN IF Len(l) < 2 THEN <<>> ELSE l[2]

\* ------------------------------------------------------------------------
\* Msg and Frag objects (core/message.go)
\* ------------------------------------------------------------------------
NoMap == [x \in {} |-> 0]

\* new(Msg), and the state msgPool.Put leaves an object in; of the map
\* Fd2Slot only whether it is nil is kept (it is written, never read)
ZeroMsg ==
    [Id |-> 0, Owner |-> 0, Type |-> "UNKNOWN", Done |-> FALSE, Error |-> <<>>,
     RspBody |-> <<>>, Body |-> NoMap, Keys |-> <<>>, Frags |-> NoMap,
     FragDoneNumber |-> 0, DelNum |-> 0, Fd2Slot |-> "nil"]

\* the zero time.Time, which is before every deadline
ZeroTime == -2

\* new(Frag); Timeout is kept relative to the clock: ZeroTime, or the number of
\* clock units left until the deadline (0 or -1: past due)
ZeroFrag ==
    [Owner |-> 0, Peer |-> 0, Timeout |-> ZeroTime, Key |-> "", Error |-> <<>>,
     Req |-> <<>>, RspBody |-> <<>>, Rsp |-> <<>>, Type |-> "UNKNOWN",
     Ok |-> FALSE, Done |-> FALSE]

\* hashkit.Hash on the keys of the model: a and d share a slot
Hash(k) ==
    CASE k = "a" -> 0 [] k = "b" -> 1 [] k = "c" -> 2 [] k = "d" -> 0
      [] k = "p" -> 1 [] k = "q" -> 2 [] k = "" -> 0

BodyLen(m) == Cardinality(DOMAIN m.Body)

\* ------------------------------------------------------------------------
\* Shard codec: aggregation of the fragments' replies
\* ------------------------------------------------------------------------
RECURSIVE parseMGetLoop(_, _)
parseMGetLoop(b, acc) ==
    LET rl == ReadLine(b) IN
    IF rl.err # "nil" THEN acc
    ELSE IF parseLen(Tail(rl.val)).n < 0
         THEN parseMGetLoop(rl.b, Append(acc, rl.val \o LFCRByte))
    ELSE LET v == ReadLine(rl.b) IN
         parseMGetLoop(v.b, Append(acc, rl.val \o LFCRByte \o v.val \o LFCRByte))

parseMGet(body) ==
    LET first == ReadLine(NewBuffer(body)) IN
    IF Len(first.val) < 1 THEN [rsp |-> <<>>, panic |-> TRUE]
    ELSE IF parseLen(Tail(first.val)).n < 0 THEN [rsp |-> <<>>, panic |-> TRUE]
    ELSE [rsp |-> parseMGetLoop(first.b, <<>>), panic |-> FALSE]

\* the inner loop of SRespCodec.MGet for one key of msg.Keys
MGetKey(m, F, k) ==
    LET slot == Hash(k)
        keys == IF slot \in DOMAIN m.Frags THEN m.Frags[slot] ELSE <<>>
    IN
    IF \A i \in 1..Len(keys) : keys[i] # k THEN [bytes |-> <<>>, panic |-> FALSE]
    ELSE LET i == CHOOSE i \in 1..Len(keys) :
                      keys[i] = k /\ \A j \in 1..(i - 1) : keys[j] # k
         IN IF slot \notin DOMAIN m.Body THEN [bytes |-> <<>>, panic |-> TRUE]
            ELSE IF i > Len(F[m.Body[slot]].Rsp) THEN [bytes |-> <<>>, panic |-> TRUE]
            ELSE [bytes |-> F[m.Body[slot]].Rsp[i], panic |-> FALSE]

RECURSIVE MGetKeys(_, _, _, _)
MGetKeys(m, F, n, acc) ==
    IF n > Len(m.Keys) THEN [bytes |-> acc, panic |-> FALSE]
    ELSE LET one == MGetKey(m, F, m.Keys[n]) IN
         IF one.panic THEN [bytes |-> acc, panic |-> TRUE]
         ELSE MGetKeys(m, F, n + 1, acc \o one.bytes)

MGet(M, F, fid) ==
    LET p == F[fid].Peer
        pm == parseMGet(F[fid].RspBody)
        F1 == [F EXCEPT ![fid].Rsp = pm.rsp, ![fid].Done = TRUE]
    IN
    IF pm.panic THEN [M |-> M, F |-> F, err |-> "nil", panic |-> TRUE]
    ELSE IF M[p].FragDoneNumber < BodyLen(M[p])
         THEN [M |-> M, F |-> F1, err |-> "Continue", panic |-> FALSE]
    ELSE LET body == MGetKeys(M[p], F1, 1, <<"*">> \o Itoa(Len(M[p].Keys)) \o LFCRByte) IN
         IF body.panic THEN [M |-> M, F |-> F1, err |-> "nil", panic |-> TRUE]
         ELSE IF Len(body.bytes) > MsgMaxLength
              THEN [M |-> [M EXCEPT ![p].Done = TRUE, ![p].Error = ErrMsgRspTooLarge,
                                    ![p].RspBody = ErrMsgRspTooLarge],
                    F |-> F1, err |-> "nil", panic |-> FALSE]
         ELSE [M |-> [M EXCEPT ![p].Done = TRUE, ![p].RspBody = body.bytes],
               F |-> F1, err |-> "nil", panic |-> FALSE]

MSet(M, F, fid) ==
    LET p == F[fid].Peer
        F1 == [F EXCEPT ![fid].Ok = (F[fid].Type = "RspOk"), ![fid].Done = TRUE]
    IN
    IF M[p].FragDoneNumber < BodyLen(M[p])
    THEN [M |-> M, F |-> F1, err |-> "Continue", panic |-> FALSE]
    ELSE [M |-> [M EXCEPT ![p].Done = TRUE,
                          ![p].RspBody =
                              IF \E s \in DOMAIN M[p].Body : ~F1[M[p].Body[s]].Ok
                              THEN ErrUnKnown ELSE OK],
          F |-> F1, err |-> "nil", panic |-> FALSE]

Del(M, F, fid) ==
    LET p == F[fid].Peer
        body == F[fid].RspBody
        n == parseLen(SubSeq(body, 2, Len(body) - 2)).n
        M1 == [M EXCEPT ![p].DelNum = @ + n]
        F1 == [F EXCEPT ![fid].Done = TRUE]
    IN
    IF Len(body) < 3 THEN [M |-> M, F |-> F, err |-> "nil", panic |-> TRUE]
    ELSE IF M1[p].FragDoneNumber < BodyLen(M1[p])
         THEN [M |-> M1, F |-> F1, err |-> "Continue", panic |-> FALSE]
    ELSE [M |-> [M1 EXCEPT ![p].Done = TRUE,
                           ![p].RspBody = <<":">> \o Itoa(M1[p].DelNum) \o LFCRByte],
          F |-> F1, err |-> "nil", panic |-> FALSE]

Default(M, F, fid) ==
    LET p == F[fid].Peer
        F1 == [F EXCEPT ![fid].Done = TRUE]
    IN
    IF Len(F[fid].RspBody) > MsgMaxLength
    THEN [M |-> [M EXCEPT ![p].Done = TRUE, ![p].Error = ErrMsgRspTooLarge,
                          ![p].RspBody = ErrMsgRspTooLarge],
          F |-> F1, err |-> "nil", panic |-> FALSE]
    ELSE [M |-> [M EXCEPT ![p].Done = TRUE, ![p].RspBody = F[fid].RspBody],
          F |-> F1, err |-> "nil", panic |-> FALSE]

\* conn.sread after Decode has attached the reply to fragment fid
\* (core/connection.go, from "if f.Owner == nil" on)
sreadFrag(M, F, fid) ==
    LET f == F[fid]
        p == f.Peer
    IN
    IF f.Owner = 0 \/ p = 0 THEN [M |-> M, F |-> F, err |-> "nil", panic |-> FALSE]
    ELSE IF f.Type \in {"RspMoved", "RspAsk"}
         THEN [M |-> M, F |-> F, err |-> "MovedOrAsk", panic |-> FALSE]
    ELSE IF f.Done THEN [M |-> M, F |-> F, err |-> "Continue", panic |-> FALSE]
    ELSE LET F0 == IF sizeTooLarge(Len(f.RspBody))
                   THEN [F EXCEPT ![fid].Error = ErrMsgRspTooLarge] ELSE F
             M0 == [M EXCEPT ![p].FragDoneNumber = @ + 1]
         IN
         IF Len(F0[fid].Error) > 0
         THEN [M |-> [M0 EXCEPT ![p].Error = F0[fid].Error,
                                ![p].FragDoneNumber = BodyLen(M[p]),
                                ![p].RspBody = F0[fid].Error,
                                ![p].Done = TRUE],
               F |-> [g \in DOMAIN F0 |->
                        IF \E s \in DOMAIN M[p].Body : M[p].Body[s] = g
                        THEN [F0[g] EXCEPT !.Done = TRUE] ELSE F0[g]],
               err |-> "nil", panic |-> FALSE]
         ELSE CASE M0[p].Type = "ReqMget" -> MGet(M0, F0, fid)
                [] M0[p].Type = "ReqMset" -> MSet(M0, F0, fid)
                [] M0[p].Type = "ReqDel" -> Del(M0, F0, fid)
                [] OTHER -> Default(M0, F0, fid)

\* ------------------------------------------------------------------------
\* Configuration of the modelled deployment
\* ------------------------------------------------------------------------
Clients == 1..NClients
MsgObjs == 1..MaxPipeMsgs
MaxFrags == 2 * MaxPipeMsgs
FragIds == 1..MaxFrags
ConnIds == 1..MaxConns

AddrA == <<"A">>
AddrB == <<"B">>
AddrC == <<"C">>

\* EngineGlobal.ProxyPool holds a pool for each of these addresses
ProxyAddrs == {AddrA, AddrB}

\* EngineGlobal.Slots2Node: the master address of every mapped slot (slot 2
\* is not mapped).  Options.DisableSlave is set, so route() is the master.
Slots2Node == [s \in {0, 1} |-> IF s = 0 THEN AddrA ELSE AddrB]

NotExist(slot) == slot \notin DOMAIN Slots2Node

route(slot) == [addr |-> Slots2Node[slot], isSlave |-> FALSE]

\* Options.RedisServerConnections (maxActive of every pool)
RedisServerConnections == 1

\* ------------------------------------------------------------------------
\* core/cluster.go : what CLUSTER NODES publishes
\* ------------------------------------------------------------------------
\* the slot space, scaled down from 16384, and the number of topology
\* changes the cluster goroutine installs
RedisClusterSlots == 3
MaxUpdates == 2

SlotIds == 0..(RedisClusterSlots - 1)

Master == 0
Slave == 1

ClusterNode(name, addr, role, masterId, slots) ==
    [Name |-> name, Addr |-> addr, Role |-> role, MasterId |-> masterId,
     Slots |-> slots]

Slots(start, end) == [Start |-> start, End |-> end]

\* the node lists ClusterNodes.parse returns (it wants three nodes at
\* least): A and B share the slots and C replicates A; B has become a
\* replica of A, which took its slot as a second range, and C a master; B
\* has lost slot 1, which nobody serves, and is replicated by A's old
\* replica
Topologies ==
    {<<ClusterNode("a", AddrA, Master, "", <<Slots(0, 0)>>),
       ClusterNode("b", AddrB, Master, "", <<Slots(1, 2)>>),
       ClusterNode("c", AddrC, Slave, "a", <<>>)>>,
     <<ClusterNode("a", AddrA, Master, "", <<Slots(0, 0), Slots(1, 1)>>),
       ClusterNode("b", AddrB, Slave, "a", <<>>),
       ClusterNode("c", AddrC, Master, "", <<Slots(2, 2)>>)>>,
     <<ClusterNode("a", AddrA, Master, "", <<Slots(0, 0)>>),
       ClusterNode("c", AddrC, Slave, "b", <<>>),
       ClusterNode("b", AddrB, Master, "", <<Slots(2, 2)>>)>>}

\* one line of the reply to CLUSTER NODES, with what INFO tells of the node:
\* flags is the set of the words of the flags column, link the link-state
\* column, info one of "up", "err" (the INFO command fails), "loading",
\* "down" (master_link_status is not up)
Line(n, flags, link, info) ==
    [Name |-> n.Name, Addr |-> n.Addr, Flags |-> flags, MasterId |-> n.MasterId,
     Link |-> link, Slots |-> n.Slots, Info |-> info]

\* the line of a node that is well
Healthy(n) ==
    Line(n, IF n.Role = Master THEN {"master"} ELSE {"myself", "slave"}, "connected", "up")

\* the reply that lists the nodes of a topology, all well
HealthyReply(allNodes) == [i \in 1..Len(allNodes) |-> Healthy(allNodes[i])]

\* replies in which a node of the first topology is not well: the replica
\* has failed, is in handshake, has no address, is disconnected, has no
\* role, does not answer INFO, is loading, has lost its master; a master
\* may have failed (PFAIL), does not answer INFO, or has no slots
SickReplies ==
    LET t == <<ClusterNode("a", AddrA, Master, "", <<Slots(0, 0)>>),
               ClusterNode("b", AddrB, Master, "", <<Slots(1, 2)>>),
               ClusterNode("c", AddrC, Slave, "a", <<>>)>>
        with(i, line) == [HealthyReply(t) EXCEPT ![i] = line]
    IN {with(3, Line(t[3], {"slave", "fail"}, "connected", "up")),
        with(3, Line(t[3], {"handshake"}, "connected", "up")),
        with(3, Line(t[3], {"slave", "noaddr"}, "connected", "up")),
        with(3, Line(t[3], {"slave"}, "disconnected", "up")),
        with(3, Line(t[3], {"myself"}, "connected", "up")),
        with(3, Line(t[3], {"slave"}, "connected", "err")),
        with(3, Line(t[3], {"slave"}, "connected", "loading")),
        with(3, Line(t[3], {"slave"}, "connected", "down")),
        with(2, Line(t[2], {"master", "fail?"}, "connected", "up")),
        with(1, Line(t[1], {"master"}, "connected", "err")),
        with(2, Line(ClusterNode("b", AddrB, Master, "", <<>>), {"master"},
                     "connected", "up"))}

\* engine.newPool: the fields of a Pool that route() reads. A LiftBanTime
\* is kept as its relation to the present only: "past" (the zero time.Time
\* is) or "future"; LiftBanOrder, which only sets how far in the future a
\* ban ends, is left out with the durations
newPool(isSlave) ==
    [isSlave |-> isSlave, AutoBanFlag |-> FALSE, LiftBanTime |-> "past"]

\* the cluster state when serve() has made the pools of the configured
\* servers and started loopClusterNodes. The slice Replicasets is its
\* backing array `array` and its length `len`; `seen` is what the slice was
\* when the update in progress began; `heap` holds the replicaset objects,
\* a pointer to one being its index and 0 the nil pointer
NoCluster ==
    [pc |-> "idle", reply |-> <<>>, allNodes |-> <<>>, i |-> 0, updates |-> 0,
     lastServerNames |-> {}, ServerMap |-> NoMap,
     heap |-> <<>>, array |-> <<>>, len |-> 0, seen |-> <<>>,
     serverChanged |-> FALSE,
     Slots2Node |-> [s \in SlotIds |-> 0],
     ProxyPool |-> [a \in ProxyAddrs |-> newPool(FALSE)],
     DisableSlave |-> TRUE,
     routed |-> <<>>]

\* the engine when serve() has started the event loop and is about to run
\* the deferred stop(): nobody waits on cond, once has not run, the
\* WaitGroup counts the goroutine of the loop
NoEngine ==
    [stop |-> "serve", once |-> FALSE, loop |-> "run", inShutdown |-> 0]

\* the configured password of the proxy, when it has one
Secret == <<"p">>

\* a client connection nothing was read from, with Options.Password
NoCodec ==
    [frames |-> <<>>, peer |-> <<>>, Password |-> Secret, opened |-> TRUE,
     inboundBuffer |-> <<>>, buffer |-> <<>>, out |-> <<>>, msgs |-> <<>>,
     status |-> "run"]

\* ------------------------------------------------------------------------
\* State
\* ------------------------------------------------------------------------
VARIABLES
    status,     \* "run", or how the event loop ended: "shutdown", "hang", "panic"
    msgId,      \* the package counter msgId of the client codec
    fragId,     \* number of Frag objects made by FragPool.Get
    msg,        \* the Msg objects
    used,       \* number of Msg objects made by MsgPool's New
    pooled,     \* the Msg objects lying in MsgPool
    frag,       \* the Frag objects
    cconn,      \* client connections
    cout,       \* what each client has been sent: <<Msg id, bytes>> in order
    sconn,      \* connections to the backends
    nconn,      \* number of connections dialled so far
    pool,       \* EngineGlobal.ProxyPool
    tree,       \* EngineGlobal.TimeoutQueue (the LLRB tree), as a set of Frags
    tasks,      \* the poller's asyncTaskQueue
    wire,       \* per backend connection: the requests it has not answered yet
    agg,        \* aggregation harness: the replies in flight and what the
                \* backends hold for every key
    cl,         \* EngineGlobal.ClusterNodes, the slot map and the pools' ban
                \* state as the cluster goroutine, the ticker and route() see them
    cdc,        \* a client connection at byte level: what the peer still
                \* sends, the buffers of the connection, what the codec decoded
    eng         \* the engine: the goroutine that runs stop(), the condition
                \* variable and sync.Once of the shutdown signal, the
                \* goroutine of the event loop, inShutdown

vars == <<status, msgId, fragId, msg, used, pooled, frag, cconn, cout, sconn,
          nconn, pool, tree, tasks, wire, agg, cl, cdc, eng>>

\* the variables of the harnesses, which the engine does not touch
aux == <<agg, cl, cdc, eng>>

\* Options.Password is configured: authCmd is not empty
PasswordSet == Len(cdc.Password) > 0

NoConn ==
    [opened |-> FALSE, addr |-> <<>>, isSlave |-> FALSE,
     initializeStatus |-> "Uninitialized", initializeStep |-> 0,
     inFragQueue |-> <<>>, outFragQueue |-> <<>>, inbound |-> <<>>]

World ==
    [status |-> status, msgId |-> msgId, fragId |-> fragId, msg |-> msg,
     used |-> used, pooled |-> pooled, frag |-> frag, cconn |-> cconn,
     cout |-> cout, sconn |-> sconn, nconn |-> nconn, pool |-> pool,
     tree |-> tree, tasks |-> tasks, wire |-> wire]

Becomes(W) ==
    /\ status' = W.status /\ msgId' = W.msgId /\ fragId' = W.fragId
    /\ msg' = W.msg /\ used' = W.used /\ pooled' = W.pooled /\ frag' = W.frag
    /\ cconn' = W.cconn /\ cout' = W.cout /\ sconn' = W.sconn
    /\ nconn' = W.nconn /\ pool' = W.pool /\ tree' = W.tree
    /\ tasks' = W.tasks /\ wire' = W.wire

Starts(W) ==
    /\ status = W.status /\ msgId = W.msgId /\ fragId = W.fragId
    /\ msg = W.msg /\ used = W.used /\ pooled = W.pooled /\ frag = W.frag
    /\ cconn = W.cconn /\ cout = W.cout /\ sconn = W.sconn
    /\ nconn = W.nconn /\ pool = W.pool /\ tree = W.tree
    /\ tasks = W.tasks /\ wire = W.wire

\* the engine after start-up: the clients are connected, nothing was read
InitWorld ==
    [status |-> "run", msgId |-> 0, fragId |-> 0,
     msg |-> [o \in MsgObjs |-> ZeroMsg],
     used |-> 0, pooled |-> {},
     frag |-> [f \in FragIds |-> ZeroFrag],
     cconn |-> [c \in Clients |-> [opened |-> TRUE, inMsgQueue |-> <<>>]],
     cout |-> [c \in Clients |-> <<>>],
     sconn |-> [s \in ConnIds |-> NoConn],
     nconn |-> 0,
     pool |-> [a \in ProxyAddrs |-> [active |-> <<>>, isSlave |-> FALSE, closed |-> FALSE]],
     tree |-> {},
     tasks |-> <<>>,
     wire |-> [s \in ConnIds |-> <<>>]]

NoAgg == [rsp |-> NoMap, val |-> NoMap]

Init ==
    Starts(InitWorld) /\ agg = NoAgg /\ cl = NoCluster /\ cdc = NoCodec /\ eng = NoEngine

\* ------------------------------------------------------------------------
\* The timeout index (core/message.go): an LLRB tree ordered by Frag.Less,
\* which holds at most one item per deadline
\* ------------------------------------------------------------------------
TimeKey(f) == f.Timeout

\* Frag.Less
Less(f, g) == TimeKey(f) < TimeKey(g)

\* llrb ReplaceOrInsert: an item that is neither less nor greater is replaced
ReplaceOrInsert(T, F, f) ==
    {g \in T : Less(F[g], F[f]) \/ Less(F[f], F[g])} \cup {f}

\* llrb Delete: removes the item that is neither less nor greater than f
deleteFromTimeoutQueue(T, F, f) ==
    {g \in T : Less(F[g], F[f]) \/ Less(F[f], F[g])}

\* llrb Min (0 when the tree is empty)
getFromTimeoutQueue(T, F) ==
    IF T = {} THEN 0 ELSE CHOOSE g \in T : \A h \in T : ~Less(F[h], F[g])

pushToTimeoutQueue(W, f) ==
    IF RequestTimeout <= 0 THEN W
    ELSE IF W.frag[f].Owner = 0 \/ W.frag[f].Peer = 0 THEN W
    ELSE LET F1 == [W.frag EXCEPT ![f].Timeout = RequestTimeout] IN
         [W EXCEPT !.frag = F1, !.tree = ReplaceOrInsert(W.tree, F1, f)]

\* The clock advances by one unit.  A deadline that is neither in the tree
\* nor counted any more stops at -1.
Advance(F) ==
    [f \in DOMAIN F |->
        IF F[f].Timeout > -1
        THEN [F[f] EXCEPT !.Timeout = @ - 1] ELSE F[f]]

\* the sweep of msgTimeout has left nothing past due in the tree
CanAdvance(W) == \A g \in W.tree : W.frag[g].Timeout >= 1

\* ------------------------------------------------------------------------
\* Queues of a connection (core/connection.go)
\* ------------------------------------------------------------------------
EnqueueInMsg(W, c, o) == [W EXCEPT !.cconn[c].inMsgQueue = Append(@, o)]

enqueueInFrag(W, s, f) ==
    pushToTimeoutQueue([W EXCEPT !.sconn[s].inFragQueue = Append(@, f)], f)

\* PushTail, then sendWriteSignal: poller.Trigger(c.handleWriteSignal)
EnqueueOutFrag(W, s, f) ==
    [W EXCEPT !.sconn[s].outFragQueue = Append(@, f),
              !.tasks = Append(@, [run |-> "handleWriteSignal", c |-> s])]

\* conn.DequeueInFrag (the caller has checked that the queue is not empty).
\* The deadline of the fragment is not read again before the next push
\* overwrites it; it is stored as the zero time from here on.
DequeueInFrag(W, s) ==
    LET f == Head(W.sconn[s].inFragQueue) IN
    [W EXCEPT !.sconn[s].inFragQueue = Tail(@),
              !.tree = deleteFromTimeoutQueue(@, W.frag, f),
              !.frag[f].Timeout = ZeroTime]

\* ------------------------------------------------------------------------
\* MsgPool (a sync.Pool) and FragPool (always a new object)
\* ------------------------------------------------------------------------
\* the objects sync.Pool.Get may hand out: one of the pool or a new one
MsgPoolGet(W) == W.pooled \cup (IF W.used < MaxPipeMsgs THEN {W.used + 1} ELSE {})

MsgPoolTake(W, o) ==
    IF o \in W.pooled THEN [W EXCEPT !.pooled = @ \ {o}]
    ELSE [W EXCEPT !.used = o]

MsgPoolPut(W, o) ==
    [W EXCEPT !.msg[o] = ZeroMsg, !.pooled = @ \cup {o}]

\* ------------------------------------------------------------------------
\* Connections to the backends (core/redis_pool.go, core/server/server_s.go)
\* ------------------------------------------------------------------------
\* the prelude commands as they stand in `wire` (fragments stand there by id)
AuthCmd == 0
ReadOnly == -1

OnSOpened(W, s) ==
    LET step == (IF PasswordSet THEN 1 ELSE 0) + (IF W.sconn[s].isSlave THEN 1 ELSE 0)
        cmds == (IF PasswordSet THEN <<AuthCmd>> ELSE <<>>)
                \o (IF W.sconn[s].isSlave THEN <<ReadOnly>> ELSE <<>>)
    IN
    IF step > 0
    THEN [W EXCEPT !.sconn[s].initializeStep = step,
                   !.sconn[s].initializeStatus = "Initializing",
                   !.wire[s] = cmds]
    ELSE [W EXCEPT !.sconn[s].initializeStep = 0,
                   !.sconn[s].initializeStatus = "Initialized"]

\* Pool.dial: ok tells whether the backend accepts the connection
dial(W, a, ok) ==
    IF ~ok \/ W.nconn >= MaxConns THEN [W |-> W, c |-> 0]
    ELSE LET s == W.nconn + 1
             W1 == [W EXCEPT !.nconn = s,
                             !.sconn[s] = [NoConn EXCEPT !.opened = TRUE, !.addr = a,
                                                         !.isSlave = W.pool[a].isSlave],
                             !.pool[a].active = <<s>> \o @]
         IN [W |-> OnSOpened(W1, s), c |-> s]

\* the rotation loop of Pool.Get: closed connections at the back are dropped
RECURSIVE dropClosed(_, _)
dropClosed(W, l) ==
    IF Len(l) = 0 THEN l
    ELSE IF W.sconn[l[Len(l)]].opened THEN l
    ELSE dropClosed(W, SubSeq(l, 1, Len(l) - 1))

PoolGet(W, a, ok) ==
    LET p == W.pool[a] IN
    IF p.closed THEN [W |-> W, c |-> 0]
    ELSE IF Len(p.active) < RedisServerConnections THEN dial(W, a, ok)
    ELSE LET l == dropClosed(W, p.active) IN
         IF Len(l) = 0 THEN dial([W EXCEPT !.pool[a].active = <<>>], a, ok)
         ELSE [W |-> [W EXCEPT !.pool[a].active =
                                   <<l[Len(l)]>> \o SubSeq(l, 1, Len(l) - 1)],
               c |-> l[Len(l)]]

\* ------------------------------------------------------------------------
\* Client side: CRespCodec.Decode, OnCReact and eventloop.cread
\* ------------------------------------------------------------------------
\* the ascending sequence of a finite set of integers
RECURSIVE SetToSeq(_)
SetToSeq(S) ==
    IF S = {} THEN <<>>
    ELSE LET m == CHOOSE x \in S : \A y \in S : x <= y
         IN <<m>> \o SetToSeq(S \ {m})

\* the keys of ks that hash to slot, in order
RECURSIVE KeysOfSlot(_, _)
KeysOfSlot(ks, slot) ==
    IF Len(ks) = 0 THEN <<>>
    ELSE (IF Hash(Head(ks)) = slot THEN <<Head(ks)>> ELSE <<>>)
         \o KeysOfSlot(Tail(ks), slot)

\* CRespCodec.Frag1: msg.Keys grows by the keys, msg.Frags groups them by slot
Frag1(m, ks) ==
    [m EXCEPT !.Keys = @ \o ks,
              !.Frags = [s \in {Hash(ks[i]) : i \in 1..Len(ks)} |-> KeysOfSlot(ks, s)]]

\* FragPool.Get and the filling of one fragment of message o
NewFrag(W, o, slot, key, req) ==
    LET f == W.fragId + 1 IN
    [W EXCEPT !.fragId = f,
              !.frag[f] = [ZeroFrag EXCEPT !.Key = key, !.Peer = o, !.Req = req],
              !.msg[o].Body = [s \in DOMAIN @ \cup {slot} |-> IF s = slot THEN f ELSE @[s]]]

\* CRespCodec.MGet / CRespCodec.Del: one fragment per slot of msg.Frags
RECURSIVE FragsOfSlots(_, _, _, _)
FragsOfSlots(W, o, slots, cmd) ==
    IF Len(slots) = 0 THEN W
    ELSE LET ks == W.msg[o].Frags[Head(slots)] IN
         FragsOfSlots(NewFrag(W, o, Head(slots), ks[1], [cmd |-> cmd, keys |-> ks]),
                      o, Tail(slots), cmd)

\* CRespCodec.Decode of one well-formed request req = [Type, Keys] into the
\* object o handed out by MsgPool.Get
CDecode(W, c, req, o) ==
    LET W1 == [MsgPoolTake(W, o) EXCEPT !.msgId = @ + 1]
        W2 == [W1 EXCEPT !.msg[o].Id = W1.msgId, !.msg[o].Owner = c,
                         !.msg[o].Type = req.Type, !.msg[o].Body = NoMap,
                         !.msg[o].Fd2Slot = "map"]
    IN
    IF req.Type \in {"ReqMget", "ReqDel"}
    THEN LET W3 == [W2 EXCEPT !.msg[o] = Frag1(@, req.Keys)] IN
         FragsOfSlots(W3, o, SetToSeq(DOMAIN W3.msg[o].Frags), req.Type)
    ELSE LET key == IF Len(req.Keys) > 0 THEN req.Keys[1] ELSE ""
             slot == IF Len(req.Keys) > 0 THEN Hash(key) ELSE 0
         IN NewFrag(W2, o, slot, key, [cmd |-> req.Type, keys |-> req.Keys])

\* listenServer.getConn; ok: whether a dial, if one is needed, succeeds.
\* (The ban fields of the pool are written here and read by route() only
\* when slaves are enabled.)
getConn(W, slot, ok) ==
    LET addr == route(slot).addr IN
    IF Len(addr) < 1 THEN [W |-> W, c |-> 0, err |-> "AddrNotFound"]
    ELSE IF addr \notin DOMAIN W.pool THEN [W |-> W, c |-> 0, err |-> "UnKnownProxyPool"]
    ELSE LET g == PoolGet(W, addr, ok) IN
         IF g.c = 0 THEN [W |-> g.W, c |-> 0, err |-> "UnKnownProxyPoolConn"]
         ELSE [W |-> g.W, c |-> g.c, err |-> "nil"]

\* eventloop.closeConn of a client connection
closeCConn(W, c) ==
    IF ~W.cconn[c].opened THEN W
    ELSE [W EXCEPT !.cconn[c] = [opened |-> FALSE, inMsgQueue |-> <<>>]]

\* Frag.Key of the model's one-byte keys, as the bytes Options.Password is
\* compared with
KeyBytes(k) == IF k = "" THEN <<>> ELSE <<k>>

\* the loop of OnCReact over r.Body, in the order ord of the map iteration
RECURSIVE OnCReactLoop(_, _, _, _, _)
OnCReactLoop(W, o, c, ord, oks) ==
    IF Len(ord) = 0 THEN [W |-> EnqueueInMsg(W, c, o), out |-> <<>>, action |-> "None"]
    ELSE LET slot == Head(ord)
             f == W.msg[o].Body[slot]
         IN
         IF W.msg[o].Type = "ReqAuth"
         THEN [W |-> W, action |-> "None",
               out |-> IF Len(cdc.Password) < 1 THEN ErrAuthNeedNtPassword
                       ELSE IF cdc.Password # KeyBytes(W.frag[f].Key)
                            THEN ErrAuthInvalidPassword
                       ELSE OK]
         ELSE IF NotExist(slot) THEN [W |-> W, out |-> ErrUnKnownSlot, action |-> "None"]
         ELSE LET g == getConn(W, slot, oks[slot]) IN
              IF g.err # "nil"
              THEN [W |-> g.W, action |-> "None",
                    out |-> CASE g.err = "UnKnownProxyPool" -> ErrUnKnownProxyPoolError
                              [] g.err = "UnKnownProxyPoolConn" -> ErrUnKnownProxyPoolConnError
                              [] OTHER -> ErrUnKnown]
              ELSE OnCReactLoop(EnqueueOutFrag([g.W EXCEPT !.frag[f].Owner = c], g.c, f),
                                o, c, Tail(ord), oks)

\* OnCReact without its first part: every request goes through the loop
OnCReactForward(W, o, c, ord, oks) == OnCReactLoop(W, o, c, ord, oks)

OnCReact(W, o, c, ord, oks) ==
    IF W.msg[o].Type = "UNKNOWN"
    THEN [W |-> W, out |-> ErrUnKnownCommand, action |-> "None"]
    ELSE CASE W.msg[o].Type = "ReqTooLarge" ->
                 [W |-> W, out |-> ErrMsgReqTooLarge, action |-> "None"]
           [] W.msg[o].Type = "ReqWrongArgumentsNumber" ->
                 [W |-> W, out |-> ErrMsgReqWrongArgumentsNumber, action |-> "None"]
           [] W.msg[o].Type = "ReqPing" -> [W |-> W, out |-> PONG, action |-> "None"]
           [] W.msg[o].Type = "ReqQuit" -> [W |-> W, out |-> OK, action |-> "Close"]
           [] OTHER -> OnCReactLoop(W, o, c, ord, oks)

\* conn.write towards a client; id is the Msg the bytes answer
cwrite(W, c, id, bs) == [W EXCEPT !.cout[c] = Append(@, [id |-> id, body |-> bs])]

\* one turn of the loop of eventloop.cread
cread(W, c, req, o, ord, oks) ==
    LET written(W1, r) ==
            IF Len(r.out) > 0 THEN cwrite(MsgPoolPut(r.W, o), c, W1.msg[o].Id, r.out)
            ELSE r.W
        acted(W2, r) == IF r.action = "Close" THEN closeCConn(W2, c) ELSE W2
        reacted(W1, r) == acted(written(W1, r), r)
        decoded(W1) == reacted(W1, OnCReact(W1, o, c, ord, oks))
    IN decoded(CDecode(W, c, req, o))

\* the requests clients send
Requests ==
    {[Type |-> "ReqGet", Keys |-> <<"a">>],
     [Type |-> "ReqGet", Keys |-> <<"b">>],
     [Type |-> "ReqPing", Keys |-> <<>>],
     [Type |-> "ReqDel", Keys |-> <<"a", "b">>],
     [Type |-> "ReqDel", Keys |-> <<"a", "c">>]}

\* the orders in which Go may iterate over a map with the keys S
Orders(S) ==
    {q \in [1..Cardinality(S) -> S] : \A i, j \in 1..Cardinality(S) : i # j => q[i] # q[j]}

\* the requests of the pipelining client
PipeRequests ==
    {[Type |-> "ReqGet", Keys |-> <<"a">>],
     [Type |-> "ReqGet", Keys |-> <<"b">>],
     [Type |-> "ReqPing", Keys |-> <<>>],
     [Type |-> "ReqDel", Keys |-> <<"a", "c">>]}

\* a read event on client connection c carrying one request of R
ClientReadOf(c, R, max) ==
    /\ status = "run"
    /\ cconn[c].opened
    /\ msgId < max
    /\ \E req \in R, o \in MsgPoolGet(World) :
          LET body == DOMAIN CDecode(World, c, req, o).msg[o].Body IN
          \E ord \in Orders(body), oks \in [body -> BOOLEAN] :
              Becomes(cread(World, c, req, o, ord, oks))
    /\ UNCHANGED aux

ClientRead(c) == ClientReadOf(c, Requests, MaxMsgs)

PipeRead(c) == ClientReadOf(c, PipeRequests, MaxPipeMsgs)

\* ------------------------------------------------------------------------
\* Tasks of the poller: conn.handleWriteSignal and conn.asyncWrite
\* ------------------------------------------------------------------------
\* the loop of handleWriteSignal: every fragment of outFragQueue moves to
\* inFragQueue and gets its deadline; adv tells whether the clock has moved
\* on between two pushes
RECURSIVE moveOutToIn(_, _, _, _)
moveOutToIn(W, s, adv, first) ==
    IF Len(W.sconn[s].outFragQueue) = 0 THEN W
    ELSE LET head == Head(W.sconn[s].outFragQueue)
             W1 == IF adv /\ ~first /\ CanAdvance(W)
                   THEN [W EXCEPT !.frag = Advance(@)] ELSE W
             W2 == [W1 EXCEPT !.sconn[s].outFragQueue = Tail(@)]
         IN moveOutToIn([enqueueInFrag(W2, s, head) EXCEPT !.wire[s] = Append(@, head)],
                        s, adv, FALSE)

handleWriteSignal(W, s, adv) ==
    IF ~W.sconn[s].opened THEN W
    ELSE IF Len(W.sconn[s].outFragQueue) < 1 THEN W
    ELSE moveOutToIn(W, s, adv, TRUE)

asyncWrite(W, t) ==
    IF ~W.cconn[t.c].opened THEN W
    ELSE cwrite(W, t.c, t.id, t.data)

\* conn.AsyncWrite: poller.Trigger(c.asyncWrite, data)
AsyncWrite(W, c, id, bs) ==
    [W EXCEPT !.tasks = Append(@, [run |-> "asyncWrite", c |-> c, id |-> id, data |-> bs])]

RunTask ==
    /\ status = "run"
    /\ Len(tasks) > 0
    /\ LET t == Head(tasks)
           W == [World EXCEPT !.tasks = Tail(@)]
       IN IF t.run = "handleWriteSignal"
          THEN \E adv \in BOOLEAN :
                  /\ adv => Len(W.sconn[t.c].outFragQueue) > 1 /\ W.sconn[t.c].opened
                  /\ Becomes(handleWriteSignal(W, t.c, adv))
          ELSE Becomes(asyncWrite(W, t))
    /\ UNCHANGED aux

\* ------------------------------------------------------------------------
\* eventloop.msgTimeout and the clock
\* ------------------------------------------------------------------------
\* the fragments of a message marked by the sweep
timeoutBody(F, m) ==
    [g \in DOMAIN F |->
        IF (\E s \in DOMAIN m.Body : m.Body[s] = g) /\ ~F[g].Done
        THEN [F[g] EXCEPT !.Error = ErrMsgRequestTimeout, !.Done = TRUE]
        ELSE F[g]]

RECURSIVE msgTimeout(_)
msgTimeout(W) ==
    LET f == getFromTimeoutQueue(W.tree, W.frag) IN
    IF f = 0 THEN W
    ELSE IF W.frag[f].Done
         THEN msgTimeout([W EXCEPT !.tree = deleteFromTimeoutQueue(@, W.frag, f)])
    ELSE IF W.frag[f].Timeout > 0 THEN W
    ELSE LET c == W.frag[f].Owner
             o == W.frag[f].Peer
             W1 == [W EXCEPT !.tree = deleteFromTimeoutQueue(@, W.frag, f),
                             !.frag = timeoutBody(@, W.msg[o]),
                             !.msg[o].Error = ErrMsgRequestTimeout]
         IN IF c = 0 \/ ~W.cconn[c].opened THEN msgTimeout(W1)
            ELSE msgTimeout(AsyncWrite(W1, c, W.msg[o].Id, ErrMsgRequestTimeout))

Sweep ==
    /\ status = "run"
    /\ tree # {}
    /\ Becomes(msgTimeout(World))
    /\ UNCHANGED aux

Tick ==
    /\ status = "run"
    /\ CanAdvance(World)
    /\ \E f \in FragIds : frag[f].Timeout > -1
    /\ frag' = Advance(frag)
    /\ UNCHANGED <<status, msgId, fragId, msg, used, pooled, cconn, cout, sconn,
                   nconn, pool, tree, tasks, wire, aux>>

\* ------------------------------------------------------------------------
\* eventloop.closeConn
\* ------------------------------------------------------------------------
\* conn.releaseTCP
releaseTCP(W, s) ==
    [W EXCEPT !.sconn[s] = [NoConn EXCEPT !.initializeStep = -1,
                                          !.initializeStatus = "InitializeNone"],
              !.wire[s] = <<>>]

\* listenServer.OnSClosed: every fragment of inFragQueue is dequeued
RECURSIVE OnSClosed(_, _)
OnSClosed(W, s) ==
    IF Len(W.sconn[s].inFragQueue) = 0 THEN W
    ELSE OnSClosed(DequeueInFrag(W, s), s)

closeSConn(W, s) ==
    IF ~W.sconn[s].opened THEN W ELSE releaseTCP(OnSClosed(W, s), s)

\* the backend closes the connection (or a read or write on it fails)
ShardClose(s) ==
    /\ status = "run"
    /\ sconn[s].opened
    /\ Becomes(closeSConn(World, s))
    /\ UNCHANGED aux

\* the client closes the connection
ClientClose(c) ==
    /\ status = "run"
    /\ cconn[c].opened
    /\ Becomes(closeCConn(World, c))
    /\ UNCHANGED aux

\* ------------------------------------------------------------------------
\* Shard side: SRespCodec.InitializingDecode / Decode, conn.sread,
\* OnMoved and eventloop.sread
\* ------------------------------------------------------------------------
ShortcutOK == [i \in {1, 2} |-> IF i = 1 THEN OK ELSE OK \o OK]

\* an InitializingDecode that waits for one +OK whatever the step
InitializingDecodeOne(W, s) ==
    LET bs == W.sconn[s].inbound IN
    IF Len(bs) = 0 THEN [W |-> W, err |-> "ErrIncompletePacket"]
    ELSE IF HasPrefix(bs, OK)
         THEN [W |-> [W EXCEPT !.sconn[s].inbound = SubSeq(bs, Len(OK) + 1, Len(bs)),
                               !.sconn[s].initializeStatus = "Initialized"],
               err |-> "nil"]
    ELSE IF HasPrefix(OK, bs) THEN [W |-> W, err |-> "ErrIncompletePacket"]
    ELSE [W |-> W, err |-> "nil"]

InitializingDecode(W, s) ==
    LET bs == W.sconn[s].inbound
        totalStep == W.sconn[s].initializeStep
    IN
    IF Len(bs) = 0 THEN [W |-> W, err |-> "ErrIncompletePacket"]
    ELSE IF totalStep < 1 THEN [W |-> W, err |-> "ErrInvalidInitializing"]
    ELSE IF totalStep \notin DOMAIN ShortcutOK
         THEN [W |-> W, err |-> "ErrInvalidInitializing"]
    ELSE IF Len(bs) >= totalStep * Len(OK) /\ HasPrefix(bs, ShortcutOK[totalStep])
         THEN [W |-> [W EXCEPT !.sconn[s].inbound =
                                   SubSeq(bs, totalStep * Len(OK) + 1, Len(bs)),
                               !.sconn[s].initializeStatus = "Initialized"],
               err |-> "nil"]
    ELSE IF bs[1] # "-" /\ bs[1] # "+" THEN [W |-> W, err |-> "ErrInvalidInitializing"]
    ELSE IF HasPrefix(ShortcutOK[totalStep], bs)
         THEN [W |-> W, err |-> "ErrIncompletePacket"]
    ELSE [W |-> W, err |-> "nil"]

\* a decoder that takes the head of inFragQueue before it has parsed a reply
SDecodeEager(W, s) ==
    LET bs == W.sconn[s].inbound
        f == Head(W.sconn[s].inFragQueue)
        parsed(rr, W1) ==
            IF rr.err # "nil" THEN [W |-> W1, f |-> 0, err |-> rr.err]
            ELSE [W |-> [W1 EXCEPT !.frag[f].Type = rr.type,
                                   !.frag[f].RspBody = ReadBuf(rr.b),
                                   !.sconn[s].inbound = leftBuf(rr.b)],
                  f |-> f, err |-> "nil"]
    IN
    IF Len(bs) = 0 THEN [W |-> W, f |-> 0, err |-> "ErrIncompletePacket"]
    ELSE IF Len(W.sconn[s].inFragQueue) = 0 THEN [W |-> W, f |-> 0, err |-> "ErrUnKnown"]
    ELSE parsed(readReply(NewBuffer(bs)), DequeueInFrag(W, s))

\* SRespCodec.Decode: the next reply is attached to the head of inFragQueue
SDecode(W, s) ==
    LET bs == W.sconn[s].inbound
        attach(rr, f, W1) ==
            [W |-> [W1 EXCEPT !.frag[f].Type = rr.type,
                              !.frag[f].RspBody = ReadBuf(rr.b),
                              !.sconn[s].inbound = leftBuf(rr.b)],
             f |-> f, err |-> "nil"]
        parsed(rr) ==
            IF rr.err # "nil" THEN [W |-> W, f |-> 0, err |-> rr.err]
            ELSE IF Len(W.sconn[s].inFragQueue) = 0
                 THEN [W |-> W, f |-> 0, err |-> "ErrUnKnown"]
            ELSE attach(rr, Head(W.sconn[s].inFragQueue), DequeueInFrag(W, s))
    IN
    IF Len(bs) = 0 THEN [W |-> W, f |-> 0, err |-> "ErrIncompletePacket"]
    ELSE parsed(readReply(NewBuffer(bs)))

\* conn.sread
csread(W, s) ==
    LET aggregated(d, r) ==
            [W |-> [d.W EXCEPT !.msg = r.M, !.frag = r.F],
             f |-> d.f, err |-> r.err, panic |-> r.panic]
        decoded(d) ==
            IF d.err # "nil" THEN [W |-> d.W, f |-> 0, err |-> d.err, panic |-> FALSE]
            ELSE aggregated(d, sreadFrag(d.W.msg, d.W.frag, d.f))
        initialized(i) ==
            IF i.err # "nil" THEN [W |-> i.W, f |-> 0, err |-> i.err, panic |-> FALSE]
            ELSE decoded(SDecode(i.W, s))
    IN
    initialized(IF W.sconn[s].initializeStatus = "Initializing"
                THEN InitializingDecode(W, s) ELSE [W |-> W, err |-> "nil"])

\* listenServer.OnMoved; writing Fd2Slot of a recycled Msg is a write into a
\* nil map
OnMoved(W, addr, s, f, ok) ==
    LET W1 == [W EXCEPT !.frag[f].RspBody = <<>>]
        got(g) ==
            IF g.c = 0 THEN [W |-> g.W, panic |-> FALSE]
            ELSE IF g.W.msg[g.W.frag[f].Peer].Fd2Slot = "nil"
                 THEN [W |-> g.W, panic |-> TRUE]
            ELSE [W |-> EnqueueOutFrag(g.W, g.c, f), panic |-> FALSE]
    IN
    IF addr \notin DOMAIN W1.pool THEN [W |-> W1, panic |-> FALSE]
    ELSE got(PoolGet(W1, addr, ok))

\* MsgQueue.AllDone
AllDone(W, c) ==
    \A i \in 1..Len(W.cconn[c].inMsgQueue) : W.msg[W.cconn[c].inMsgQueue[i]].Done

\* the writev of every queued reply, head first
RECURSIVE writeAll(_, _, _)
writeAll(W, c, q) ==
    IF Len(q) = 0 THEN W
    ELSE writeAll(cwrite(W, c, W.msg[Head(q)].Id, W.msg[Head(q)].RspBody), c, Tail(q))

\* the release loop: dequeueInMsg and MsgPool.Put until the queue is empty
RECURSIVE releaseAll(_, _)
releaseAll(W, c) ==
    IF Len(W.cconn[c].inMsgQueue) = 0 THEN W
    ELSE LET o == Head(W.cconn[c].inMsgQueue) IN
         releaseAll(MsgPoolPut([W EXCEPT !.cconn[c].inMsgQueue = Tail(@)], o), c)

AuthTypes == {"RspNeedNtAuth", "RspNeedAuth", "RspAuthFailed"}

\* the loop of eventloop.sread over the bytes read from connection s
RECURSIVE elsread(_, _, _)
elsread(W, s, ok) ==
    LET moved(m) == IF m.panic THEN [m.W EXCEPT !.status = "panic"] ELSE elsread(m.W, s, ok)
        flushed(W2) == IF ~W2.sconn[s].opened THEN W2 ELSE elsread(W2, s, ok)
        answered(V, c) ==
            IF ~V.cconn[c].opened THEN elsread(V, s, ok)
            ELSE IF Len(V.cconn[c].inMsgQueue) = 0 THEN elsread(closeCConn(V, c), s, ok)
            ELSE IF ~AllDone(V, c) THEN elsread(V, s, ok)
            ELSE flushed(releaseAll(writeAll(V, c, V.cconn[c].inMsgQueue), c))
        read(r) ==
            IF r.panic THEN [r.W EXCEPT !.status = "panic"]
            ELSE IF r.err \in {"ErrUnKnown", "ErrInvalidResp", "ErrInvalidInitializing"}
                 THEN [r.W EXCEPT !.status = "hang"]
            ELSE IF r.err = "MovedOrAsk"
                 THEN moved(OnMoved(r.W, parseMovedOrAsk(r.W.frag[r.f]), s, r.f, ok))
            ELSE IF r.err = "Continue" THEN elsread(r.W, s, ok)
            ELSE IF r.err # "nil" THEN r.W
            ELSE IF r.W.frag[r.f].Type \in AuthTypes THEN [r.W EXCEPT !.status = "shutdown"]
            ELSE IF r.W.frag[r.f].Owner = 0 THEN elsread(r.W, s, ok)
            ELSE answered(r.W, r.W.frag[r.f].Owner)
    IN
    read(csread(W, s))

\* ------------------------------------------------------------------------
\* The backends: what they answer to the oldest request on a connection
\* ------------------------------------------------------------------------
BulkV == <<"$", "1", CR, LF, "v", CR, LF>>

\* a bulk longer than MsgMaxLength
BigBulk ==
    <<"$", "1", "5", CR, LF, "v", "v", "v", "v", "v", "v", "v", "v", "v", "v", "v",
      "v", "v", "v", "v", CR, LF>>

Int1 == <<":", "1", CR, LF>>

ErrX == <<"-", "E", "R", "R", " ", "x", CR, LF>>

Moved(a) == MovedPrefix \o <<" ", "1", " ">> \o a \o LFCRByte

\* the addresses a backend may name in a redirection
MovedAddrs == {AddrA, AddrB, AddrC}

Replies(W, s, q) ==
    IF q = AuthCmd THEN {OK, ErrX, AuthFailedPrefix \o LFCRByte}
    ELSE IF q = ReadOnly THEN {OK, ErrX}
    ELSE IF W.frag[q].Req.cmd = "ReqDel" THEN {Int1, ErrX}
    ELSE {BulkV, BigBulk} \cup {Moved(a) : a \in MovedAddrs \ {W.sconn[s].addr}}

\* what backends that are up and healthy answer
PipeReplies(W, s, q) ==
    IF q = AuthCmd \/ q = ReadOnly THEN {OK}
    ELSE IF W.frag[q].Req.cmd = "ReqDel" THEN {Int1}
    ELSE {BulkV}

\* a read event on backend connection s carrying the answer to the oldest
\* request written on it
ShardReadOf(s, healthy) ==
    /\ status = "run"
    /\ sconn[s].opened
    /\ Len(wire[s]) > 0
    /\ \E bs \in (IF healthy THEN PipeReplies(World, s, Head(wire[s]))
                            ELSE Replies(World, s, Head(wire[s]))),
          ok \in BOOLEAN :
          Becomes(elsread([World EXCEPT !.wire[s] = Tail(@),
                                        !.sconn[s].inbound = @ \o bs], s, ok))
    /\ UNCHANGED aux

ShardRead(s) == ShardReadOf(s, FALSE)

PipeShardRead(s) == ShardReadOf(s, TRUE)

Next ==
    \/ \E c \in Clients : ClientRead(c)
    \/ RunTask
    \/ \E s \in ConnIds : ShardRead(s)
    \/ Sweep
    \/ Tick
    \/ \E s \in ConnIds : ShardClose(s)
    \/ \E c \in Clients : ClientClose(c)

Spec == Init /\ [][Next]_vars

\* a pipelining client in front of backends that stay up and answer in time
NextPipe ==
    \/ \E c \in Clients : PipeRead(c)
    \/ RunTask
    \/ \E s \in ConnIds : PipeShardRead(s)

SpecPipe == Init /\ [][NextPipe]_vars

\* ------------------------------------------------------------------------
\* Aggregation of MGET and DEL on its own: one request has been decoded and
\* forwarded, each of its fragments is answered once, in any order
\* ------------------------------------------------------------------------
AggKeys == {"a", "b", "d"}

AggKeySeqs == UNION {[1..n -> AggKeys] : n \in 1..MaxAggKeys}

NilBulk == <<"$", "-", "1", CR, LF>>

\* a one-byte bulk string whose byte is a line feed
BulkLF == <<"$", "1", CR, LF, LF, CR, LF>>

\* what a backend may hold for a key, as the element of an MGET reply
Elements == {NilBulk, BulkV, BulkLF}

Int0 == <<":", "0", CR, LF>>

\* what a backend may answer to a DEL
DelReplies == {Int0, Int1, ErrX}

RECURSIVE Concat(_)
Concat(ss) == IF Len(ss) = 0 THEN <<>> ELSE Head(ss) \o Concat(Tail(ss))

\* the RESP array a backend answers to MGET ks when it holds val
MGetReply(ks, val) ==
    <<"*">> \o Itoa(Len(ks)) \o LFCRByte \o Concat([i \in 1..Len(ks) |-> val[ks[i]]])

\* the state in which request req of client 1 has been decoded into Msg 1
\* and every fragment of it has been forwarded
Forwarded(req) ==
    LET W1 == CDecode(InitWorld, 1, req, 1)
        body == W1.msg[1].Body
    IN [W1 EXCEPT !.frag = [f \in DOMAIN @ |->
                               IF \E s \in DOMAIN body : body[s] = f
                               THEN [@[f] EXCEPT !.Owner = 1] ELSE @[f]],
                  !.cconn[1].inMsgQueue = <<1>>]

InitAgg ==
    /\ cl = NoCluster
    /\ cdc = NoCodec
    /\ eng = NoEngine
    /\ \E ks \in AggKeySeqs :
           \/ \E val \in [AggKeys -> Elements] :
                 LET W == Forwarded([Type |-> "ReqMget", Keys |-> ks])
                     body == W.msg[1].Body
                 IN /\ Starts(W)
                    /\ agg = [rsp |-> [f \in {body[s] : s \in DOMAIN body} |->
                                          MGetReply(W.frag[f].Req.keys, val)],
                              val |-> val]
           \/ LET W == Forwarded([Type |-> "ReqDel", Keys |-> ks])
                  body == W.msg[1].Body
              IN /\ Starts(W)
                 /\ \E r \in [{body[s] : s \in DOMAIN body} -> DelReplies] :
                       agg = [rsp |-> r, val |-> NoMap]

\* the reply in flight for fragment f is decoded (SRespCodec.Decode attaches
\* it to f) and conn.sread aggregates it
AggRead(f) ==
    /\ status = "run"
    /\ f \in DOMAIN agg.rsp
    /\ LET rr == readReply(NewBuffer(agg.rsp[f]))
           F1 == [frag EXCEPT ![f].Type = rr.type, ![f].RspBody = ReadBuf(rr.b)]
           r == sreadFrag(msg, F1, f)
       IN /\ msg' = r.M
          /\ frag' = r.F
          /\ status' = IF r.panic THEN "panic" ELSE status
    /\ agg' = [agg EXCEPT !.rsp = [g \in DOMAIN @ \ {f} |-> @[g]]]
    /\ UNCHANGED <<msgId, fragId, used, pooled, cconn, cout, sconn, nconn, pool,
                   tree, tasks, wire, cl, cdc, eng>>

NextAgg == \E f \in FragIds : AggRead(f)

SpecAgg == InitAgg /\ [][NextAgg]_vars

\* ------------------------------------------------------------------------
\* Properties of the aggregation (SpecAgg)
\* ------------------------------------------------------------------------
\* the fragments of Msg o
FragsOfMsg(o) == {msg[o].Body[s] : s \in DOMAIN msg[o].Body}

\* the array MGET k1 ... kn has to be answered with, given what the backends hold
ExpectedMGet ==
    <<"*">> \o Itoa(Len(msg[1].Keys)) \o LFCRByte
    \o Concat([i \in 1..Len(msg[1].Keys) |-> agg.val[msg[1].Keys[i]]])

\* C6: once every sub-request of MGET k1 ... kn has been answered with an
\* array holding one element per key, the reply for the client is the array
\* of exactly n elements whose i-th element is the backend's element for ki
\* (as long as that array is within the size limit)
C6_MGetReply ==
    (msg[1].Type = "ReqMget" /\ msg[1].Done /\ Len(ExpectedMGet) <= MsgMaxLength)
        => msg[1].RspBody = ExpectedMGet

\* the deletion count a shard returned in reply bs (none in an error line)
DelCount(bs) ==
    IF Len(bs) > 3 /\ bs[1] = ":" THEN parseLen(SubSeq(bs, 2, Len(bs) - 2)).n ELSE 0

RECURSIVE SumCounts(_)
SumCounts(fs) ==
    IF fs = {} THEN 0
    ELSE LET f == CHOOSE g \in fs : TRUE
         IN DelCount(frag[f].RspBody) + SumCounts(fs \ {f})

\* C7: the reply to DEL k1 ... kn is :N\r\n where N is the sum of the counts
\* the shards returned, whatever the shards answered; N is never negative
C7_DelSum ==
    (msg[1].Type = "ReqDel" /\ msg[1].Done)
        => /\ msg[1].RspBody = <<":">> \o Itoa(SumCounts(FragsOfMsg(1))) \o LFCRByte
           /\ msg[1].DelNum >= 0

\* ------------------------------------------------------------------------
\* The event loop keeps running: tasks are run, the sweep is called and the
\* clock advances.  Nothing is assumed about clients and backends.
\* ------------------------------------------------------------------------
FairSpec == Spec /\ WF_vars(RunTask) /\ WF_vars(Sweep) /\ WF_vars(Tick)

\* ------------------------------------------------------------------------
\* Properties of the engine
\* ------------------------------------------------------------------------
Range(q) == {q[i] : i \in 1..Len(q)}

\* the Msg objects held in the in_msg_queue of client c
Queued(c) == Range(cconn[c].inMsgQueue)

\* C1: the replies to the requests of one client are written in the order
\* in which the requests were sent, whether a request is forwarded or
\* answered by the proxy itself
C1_ReplyOrder ==
    \A c \in Clients : \A i, j \in 1..Len(cout[c]) :
        i < j => cout[c][i].id <= cout[c][j].id

\* the Fragments written on connection s that the backend has not answered
AwaitingReply(s) == SelectSeq(wire[s], LAMBDA q : q > 0)

\* C2: on every open shard connection the Fragments waiting in in_frag_queue
\* are, in order, the Fragments whose requests the backend has yet to
\* answer: the next reply goes to the Fragment it answers, and the replies
\* to the prelude go to no Fragment
C2_Fifo ==
    status = "run" =>
        \A s \in ConnIds : sconn[s].opened => sconn[s].inFragQueue = AwaitingReply(s)

\* C3: while the loop runs, every Message put on a client's in_msg_queue is
\* eventually removed from it, whatever the backends do
C3_Released ==
    \A c \in Clients : \A o \in MsgObjs :
        (o \in Queued(c)) ~> (o \notin Queued(c) \/ status # "run")

\* C4: the step in which a Fragment is marked with `proxy request timeout`
\* marks its Message done with that error, marks every Fragment of the
\* Message done, and queues the error line for the owning client
C4_Sweep ==
    [][\A f \in FragIds :
          (frag[f].Error # ErrMsgRequestTimeout /\ frag'[f].Error = ErrMsgRequestTimeout)
              => LET o == frag[f].Peer
                     c == frag[f].Owner
                 IN /\ msg'[o].Done
                    /\ msg'[o].Error = ErrMsgRequestTimeout
                    /\ \A s \in DOMAIN msg[o].Body : frag'[msg[o].Body[s]].Done
                    /\ (c # 0 /\ cconn[c].opened)
                          => \E i \in 1..Len(tasks') :
                                /\ tasks'[i].run = "asyncWrite"
                                /\ tasks'[i].c = c
                                /\ tasks'[i].data = ErrMsgRequestTimeout]_vars

\* C5: the step in which the reply decoded for the head Fragment of a shard
\* connection is a MOVED or ASK line leaves that Fragment queued for writing
\* on an open connection, and no client is ever sent a MOVED or ASK line
C5_Redirect ==
    [][/\ \A s \in ConnIds : \A f \in FragIds :
            ( /\ status' = "run"
              /\ sconn[s].opened /\ sconn'[s].opened
              /\ Len(wire[s]) > 0 /\ wire'[s] = Tail(wire[s])
              /\ Len(sconn[s].inFragQueue) > 0 /\ f = Head(sconn[s].inFragQueue)
              /\ sconn'[s].inFragQueue = Tail(sconn[s].inFragQueue)
              /\ frag'[f].Type \in {"RspMoved", "RspAsk"} )
            => \E t \in ConnIds : sconn'[t].opened /\ f \in Range(sconn'[t].outFragQueue)
       /\ \A c \in Clients : \A i \in 1..Len(cout'[c]) :
            /\ ~HasPrefix(cout'[c][i].body, MovedPrefix)
            /\ ~HasPrefix(cout'[c][i].body, AskPrefix)]_vars

\* C8: for every Message held by a client, frag_done_count is at most the
\* number of its Fragments
C8_DoneCount ==
    \A c \in Clients : \A o \in Queued(c) : msg[o].FragDoneNumber <= BodyLen(msg[o])

\* C9: for every Message held by a client, done holds exactly when
\* frag_done_count equals the number of its Fragments or a terminal error
\* (response too large, request timeout) is recorded on it
C9_DoneIff ==
    \A c \in Clients : \A o \in Queued(c) :
        msg[o].Done <=> \/ msg[o].FragDoneNumber = BodyLen(msg[o])
                        \/ msg[o].Error \in {ErrMsgRspTooLarge, ErrMsgRequestTimeout}

\* C10: a Fragment is in the timeout index exactly when it sits in the
\* in_frag_queue of some shard connection
C10_Index ==
    \A f \in FragIds :
        f \in tree <=> \E s \in ConnIds : f \in Range(sconn[s].inFragQueue)

\* ------------------------------------------------------------------------
\* core/codec/commands.go : the command numbers route() compares
\* ------------------------------------------------------------------------
Command ==
    [UNKNOWN |-> 0, ReqGet |-> 7, ReqMget |-> 10, ReqWriteCmdStart |-> 42,
     ReqDel |-> 43, ReqExpire |-> 44, ReqMset |-> 57, ReqSet |-> 60,
     ReqEval |-> 101, ReqEvalsha |-> 102, ReqPing |-> 103, ReqQuit |-> 104,
     ReqAuth |-> 105, ReqTooLarge |-> 106, ReqWrongArgumentsNumber |-> 107,
     Sentinel |-> 121]

\* ------------------------------------------------------------------------
\* core/cluster.go : the goroutine loopClusterNodes installs a topology
\* ------------------------------------------------------------------------
\* the name isChanged makes of a node (fmt.Sprintf of address, role and,
\* for a master, its slots)
serverName(n) ==
    [Addr |-> n.Addr, Role |-> n.Role,
     Slots |-> IF n.Role = Master THEN n.Slots ELSE <<>>]

\* the sorted and joined names; the nodes of a list have different names
serverNames(allNodes) == {serverName(allNodes[i]) : i \in 1..Len(allNodes)}

\* an isChanged that compares the number of nodes only
isChangedLen(C, allNodes) ==
    Len(allNodes) # Cardinality(DOMAIN C.ServerMap)

isChanged(C, allNodes) ==
    \/ Len(allNodes) # Cardinality(DOMAIN C.ServerMap)
    \/ serverNames(allNodes) # C.lastServerNames

setServer(C, allNodes) ==
    [C EXCEPT !.ServerMap =
        [a \in {allNodes[i].Addr : i \in 1..Len(allNodes)} |->
            LET last == CHOOSE i \in 1..Len(allNodes) :
                            /\ allNodes[i].Addr = a
                            /\ \A j \in (i + 1)..Len(allNodes) : allNodes[j].Addr # a
            IN allNodes[last]]]

\* ClusterNodes.newClusterNode: the role is read from the flags
newClusterNode(line) ==
    ClusterNode(line.Name, line.Addr,
                IF "master" \in line.Flags THEN Master ELSE Slave,
                line.MasterId, line.Slots)

\* strings.Contains(xs[2], word) for the flags of a line
FlagsContain(line, word) ==
    \/ word \in line.Flags
    \/ word = "fail" /\ "fail?" \in line.Flags

\* whether ClusterNodes.parse skips the line (newClusterNode fails on a
\* master without slots)
skipped(C, line) ==
    \/ FlagsContain(line, "noaddr") \/ FlagsContain(line, "handshake")
    \/ FlagsContain(line, "fail")
    \/ ~FlagsContain(line, "master") /\ ~FlagsContain(line, "slave")
    \/ line.Link = "disconnected"
    \/ newClusterNode(line).Role = Master /\ Len(line.Slots) = 0
    \/ /\ line.Addr \notin DOMAIN C.ServerMap
       /\ \/ line.Info = "err"
          \/ newClusterNode(line).Role = Slave /\ line.Info \in {"loading", "down"}

\* the parse that takes whatever is left
RECURSIVE parseAny(_, _)
parseAny(C, msgs) ==
    IF Len(msgs) = 0 THEN [allNodes |-> <<>>, err |-> "nil"]
    ELSE LET rest == parseAny(C, Tail(msgs)).allNodes IN
         [allNodes |-> IF skipped(C, Head(msgs)) THEN rest
                       ELSE <<newClusterNode(Head(msgs))>> \o rest,
          err |-> "nil"]

\* ClusterNodes.parse
parse(C, msgs) ==
    LET kept(allNodes) ==
            IF Len(allNodes) < 3 THEN [allNodes |-> <<>>, err |-> "not enough nodes"]
            ELSE [allNodes |-> allNodes, err |-> "nil"]
    IN kept(parseAny(C, msgs).allNodes)

\* updateClusterNodes up to the call of setReplicaset; `reply` and `updates`
\* keep what loopClusterNodes received and how often
updateClusterNodes(C, msgs) ==
    LET C0 == [C EXCEPT !.reply = msgs, !.updates = @ + 1]
        parsed(p) ==
            IF p.err # "nil" THEN C0
            ELSE IF isChanged(C, p.allNodes)
                 THEN [setServer(C0, p.allNodes) EXCEPT
                          !.lastServerNames = serverNames(p.allNodes),
                          !.pc = "truncate", !.i = 1, !.allNodes = p.allNodes,
                          !.seen = SubSeq(C.array, 1, C.len)]
            ELSE [C0 EXCEPT !.lastServerNames = serverNames(p.allNodes)]
    IN parsed(parse(C, msgs))

\* append(c.Replicasets, r) for a new replicaset r of master n
appendReplicaset(C, n) ==
    LET r == Len(C.heap) + 1 IN
    [C EXCEPT !.heap = Append(@, [Master |-> n, Slaves |-> <<>>]),
              !.array = IF C.len < Len(@) THEN [@ EXCEPT ![C.len + 1] = r]
                        ELSE Append(@, r),
              !.len = @ + 1]

\* rs.Slaves = append(rs.Slaves, n) for the first replicaset of the slice
\* whose master n names
appendSlave(C, n) ==
    LET hit == {k \in 1..C.len : C.heap[C.array[k]].Master.Name = n.MasterId} IN
    IF hit = {} THEN C
    ELSE LET k == CHOOSE k \in hit : \A j \in hit : k <= j IN
         [C EXCEPT !.heap[C.array[k]].Slaves = Append(@, n)]

\* where setReplicaset goes on after the node C.i of a loop
nextNode(C, after) ==
    IF C.i < Len(C.allNodes) THEN [C EXCEPT !.i = @ + 1]
    ELSE [C EXCEPT !.i = 1, !.pc = after]

\* one statement of setReplicaset and of what updateClusterNodes does after
\* it: the truncation, one turn of the first loop, one turn of the second,
\* the assignment of serverChanged
setReplicaset(C) ==
    LET n == C.allNodes[C.i] IN
    CASE C.pc = "truncate" -> [C EXCEPT !.len = 0, !.pc = "masters"]
      [] C.pc = "masters" ->
            nextNode(IF n.Role = Master THEN appendReplicaset(C, n) ELSE C, "slaves")
      [] C.pc = "slaves" ->
            nextNode(IF n.Role = Slave THEN appendSlave(C, n) ELSE C, "flag")
      [] OTHER -> [C EXCEPT !.serverChanged = TRUE, !.pc = "idle"]

\* ------------------------------------------------------------------------
\* eventloop.ticker : the event loop reloads the servers
\* ------------------------------------------------------------------------
\* what the loop's `range` over the slice Replicasets may see while the
\* goroutine rewrites it without synchronisation: the slice as it is, or
\* the header it had when the update began with, in every place, the
\* pointer that was there or the one that is there now
Views(C) ==
    LET cur == SubSeq(C.array, 1, C.len) IN
    IF C.pc = "idle" THEN {cur}
    ELSE {cur} \cup
         {q \in [1..Len(C.seen) -> 1..Len(C.heap)] :
             \A k \in 1..Len(C.seen) : q[k] \in {C.seen[k], C.array[k]}}

\* a Set whose inner loop starts at slot 0 whatever the range's Start
SetFromZero(m, heap, rs) ==
    [s \in SlotIds |->
        IF \E k \in 1..Len(heap[rs].Master.Slots) : s <= heap[rs].Master.Slots[k].End
        THEN rs ELSE m[s]]

\* the loops of slotReplicaset.Set over the slot ranges of the master of rs
Set(m, heap, rs) ==
    [s \in SlotIds |->
        IF \E k \in 1..Len(heap[rs].Master.Slots) :
              /\ heap[rs].Master.Slots[k].Start <= s
              /\ s <= heap[rs].Master.Slots[k].End
        THEN rs ELSE m[s]]

RECURSIVE loadSlots(_, _, _)
loadSlots(m, heap, view) ==
    IF Len(view) = 0 THEN m
    ELSE loadSlots(Set(m, heap, Head(view)), heap, Tail(view))

\* slotReplicaset.Reset
Reset == [s \in SlotIds |-> 0]

\* the pools after the two loops over ProxyPool and ServerMap
loadPools(C) ==
    [a \in DOMAIN C.ServerMap |->
        IF a \in DOMAIN C.ProxyPool
        THEN [C.ProxyPool[a] EXCEPT !.isSlave = (C.ServerMap[a].Role = Slave)]
        ELSE newPool(C.ServerMap[a].Role = Slave)]

ticker(C, view) ==
    IF ~C.serverChanged THEN C
    ELSE [C EXCEPT !.ProxyPool = loadPools(C),
                   !.Slots2Node = loadSlots(Reset, C.heap, view),
                   !.serverChanged = FALSE]

\* ------------------------------------------------------------------------
\* listenServer.route and getConn with replicas
\* ------------------------------------------------------------------------
\* the loop of route over the replicas of the slot: the first replica that
\* has a pool and passes the ban test is appended to liveSlaves, which was
\* emptied before the loop, and the function returns an element of it
RECURSIVE routeSlaves(_, _, _)
routeSlaves(C, slaves, master) ==
    IF Len(slaves) = 0 THEN [C |-> C, addr |-> master.Addr, isSlave |-> FALSE]
    ELSE LET v == Head(slaves) IN
         IF v.Addr \notin DOMAIN C.ProxyPool THEN routeSlaves(C, Tail(slaves), master)
         ELSE IF C.ProxyPool[v.Addr].AutoBanFlag /\ C.ProxyPool[v.Addr].LiftBanTime = "past"
              THEN routeSlaves(C, Tail(slaves), master)
         ELSE [C |-> [C EXCEPT !.ProxyPool[v.Addr].AutoBanFlag = FALSE],
               addr |-> v.Addr, isSlave |-> TRUE]

\* a route without the test of the command's kind
routeAnyKind(C, Type, slot) ==
    LET rs == C.heap[C.Slots2Node[slot]] IN
    IF C.DisableSlave THEN [C |-> C, addr |-> rs.Master.Addr, isSlave |-> FALSE]
    ELSE routeSlaves(C, rs.Slaves, rs.Master)

routeOf(C, Type, slot) ==
    LET rs == C.heap[C.Slots2Node[slot]] IN
    IF C.DisableSlave THEN [C |-> C, addr |-> rs.Master.Addr, isSlave |-> FALSE]
    ELSE IF Command[Type] > Command.ReqWriteCmdStart
         THEN [C |-> C, addr |-> rs.Master.Addr, isSlave |-> FALSE]
    ELSE routeSlaves(C, rs.Slaves, rs.Master)

\* getConn for a request of kind Type and one of its slots; ok tells
\* whether pool.Get() returns a connection. The result is left in `routed`
getConnOf(C, Type, slot, ok) ==
    LET r == routeOf(C, Type, slot)
        res(err) == [turn |-> 1 - (IF C.routed = <<>> THEN 0 ELSE C.routed.turn),
                     Type |-> Type, slot |-> slot, addr |-> r.addr,
                     isSlave |-> r.isSlave, err |-> err]
    IN
    IF Len(r.addr) < 1 THEN [r.C EXCEPT !.routed = res("AddrNotFound")]
    ELSE IF r.addr \notin DOMAIN r.C.ProxyPool
         THEN [r.C EXCEPT !.routed = res("UnKnownProxyPool")]
    ELSE IF ~ok
         THEN [r.C EXCEPT !.ProxyPool[r.addr].LiftBanTime = "future",
                          !.ProxyPool[r.addr].AutoBanFlag = TRUE,
                          !.routed = res("UnKnownProxyPoolConn")]
    ELSE [r.C EXCEPT !.routed = res("nil")]

\* Pool.monitor: the probe of the pool of addr has succeeded or failed twice
monitor(C, addr, ok) ==
    IF ok THEN [C EXCEPT !.ProxyPool[addr].AutoBanFlag = FALSE]
    ELSE [C EXCEPT !.ProxyPool[addr].LiftBanTime = "future",
                   !.ProxyPool[addr].AutoBanFlag = TRUE]

\* ------------------------------------------------------------------------
\* The cluster goroutine and the ticker, without the traffic
\* ------------------------------------------------------------------------
\* what the harnesses of the cluster leave alone
traffic ==
    <<status, msgId, fragId, msg, used, pooled, frag, cconn, cout, sconn, nconn,
      pool, tree, tasks, wire, agg, cdc, eng>>

InitCluster ==
    /\ Starts(InitWorld)
    /\ agg = NoAgg
    /\ cdc = NoCodec
    /\ eng = NoEngine
    /\ cl = NoCluster

\* a reply to CLUSTER NODES reaches loopClusterNodes
ClusterNodes ==
    /\ cl.pc = "idle"
    /\ cl.updates < MaxUpdates
    /\ \E msgs \in {HealthyReply(t) : t \in Topologies} \cup SickReplies :
          cl' = updateClusterNodes(cl, msgs)
    /\ UNCHANGED traffic

SetReplicaset ==
    /\ cl.pc # "idle"
    /\ cl' = setReplicaset(cl)
    /\ UNCHANGED traffic

Ticker ==
    /\ \E view \in Views(cl) : cl' = ticker(cl, view)
    /\ UNCHANGED traffic

NextCluster ==
    \/ ClusterNodes
    \/ SetReplicaset
    \/ Ticker

SpecCluster == InitCluster /\ [][NextCluster]_vars

\* ------------------------------------------------------------------------
\* The routing of requests over a loaded topology, with the monitors of the
\* pools and the passing of time
\* ------------------------------------------------------------------------
RouteTypes ==
    {"ReqGet", "ReqMget", "ReqDel", "ReqExpire", "ReqMset", "ReqSet", "ReqEval"}

\* setReplicaset run to its end
RECURSIVE installed(_)
installed(C) == IF C.pc = "idle" THEN C ELSE installed(setReplicaset(C))

\* the first topology has been installed and the ticker has loaded it
loaded(allNodes) ==
    LET C == installed(updateClusterNodes(NoCluster, HealthyReply(allNodes))) IN
    ticker(C, SubSeq(C.array, 1, C.len))

InitRoute ==
    /\ Starts(InitWorld)
    /\ agg = NoAgg
    /\ cdc = NoCodec
    /\ eng = NoEngine
    /\ \E allNodes \in Topologies, d \in BOOLEAN :
          cl = [loaded(allNodes) EXCEPT !.DisableSlave = d]

\* OnCReact asks getConn for a connection for a slot that is mapped
Route ==
    /\ \E Type \in RouteTypes, slot \in SlotIds, ok \in BOOLEAN :
          /\ cl.Slots2Node[slot] # 0
          /\ cl' = getConnOf(cl, Type, slot, ok)
    /\ UNCHANGED traffic

Monitor ==
    /\ \E addr \in DOMAIN cl.ProxyPool, ok \in BOOLEAN : cl' = monitor(cl, addr, ok)
    /\ UNCHANGED traffic

\* time passes: a ban that was to end later has ended
Elapse ==
    /\ \E addr \in DOMAIN cl.ProxyPool :
          /\ cl.ProxyPool[addr].LiftBanTime = "future"
          /\ cl' = [cl EXCEPT !.ProxyPool[addr].LiftBanTime = "past"]
    /\ UNCHANGED traffic

NextRoute ==
    \/ Route
    \/ Monitor
    \/ Elapse

SpecRoute == InitRoute /\ [][NextRoute]_vars

\* ------------------------------------------------------------------------
\* Properties of the slot map and of the routing
\* ------------------------------------------------------------------------
\* C11: every slot of the slot map is either nil or points to a replica set
\* whose master is a node of role master that publishes a slot range
\* holding the slot
C11_SlotMap ==
    \A s \in SlotIds :
        \/ cl.Slots2Node[s] = 0
        \/ LET m == cl.heap[cl.Slots2Node[s]].Master IN
           /\ m.Role = Master
           /\ \E k \in 1..Len(m.Slots) : m.Slots[k].Start <= s /\ s <= m.Slots[k].End

\* the ticker has loaded the slot map while the goroutine was installing a
\* later topology, and the map has a slot that is served and one that is not
C11_Loaded ==
    /\ cl.updates >= 2
    /\ cl.pc # "idle"
    /\ ~cl.serverChanged
    /\ \E s \in SlotIds : cl.Slots2Node[s] # 0
    /\ \E s \in SlotIds : cl.Slots2Node[s] = 0

\* C12: when OnCReact answers a Message with `-ERR unknown slot`, because
\* one of its slots is not in the slot map, no Fragment of the Message has
\* been enqueued on a connection to a backend and the Message is not in the
\* client's inMsgQueue
C12_UnknownSlot ==
    [][\A c \in Clients :
          (/\ Len(cout'[c]) = Len(cout[c]) + 1
           /\ cout'[c][Len(cout'[c])].body = ErrUnKnownSlot)
          => /\ \A s \in ConnIds : sconn'[s].outFragQueue = sconn[s].outFragQueue
             /\ cconn'[c].inMsgQueue = cconn[c].inMsgQueue]_vars

\* C13: a request of a write kind (DEL, SET, MSET, EXPIRE, EVAL) is routed
\* to the master of the replica set of its slot and not as a replica
\* request, with replicas enabled or disabled and whatever the pools' bans
C13_WriteMaster ==
    [][(/\ cl'.routed # cl.routed
        /\ cl'.routed.Type \in {"ReqDel", "ReqSet", "ReqMset", "ReqExpire", "ReqEval"})
       => /\ cl'.routed.addr = cl.heap[cl.Slots2Node[cl'.routed.slot]].Master.Addr
          /\ ~cl'.routed.isSlave]_vars

\* a DEL has been routed, and a connection handed out, with replicas
\* enabled, for a slot whose replica set has a replica with a pool that is
\* not banned
C13_Routed ==
    /\ cl.routed # <<>>
    /\ cl.routed.Type = "ReqDel"
    /\ cl.routed.err = "nil"
    /\ ~cl.DisableSlave
    /\ \E k \in 1..Len(cl.heap[cl.Slots2Node[cl.routed.slot]].Slaves) :
          LET v == cl.heap[cl.Slots2Node[cl.routed.slot]].Slaves[k] IN
          /\ v.Addr \in DOMAIN cl.ProxyPool
          /\ ~cl.ProxyPool[v.Addr].AutoBanFlag

\* C14: a read is routed to a replica only if the replica is live when it
\* is routed: its pool's AutoBanFlag is false, or its LiftBanTime has passed
C14_LiveReplica ==
    [][(/\ cl'.routed # cl.routed
        /\ cl'.routed.isSlave)
       => \/ ~cl.ProxyPool[cl'.routed.addr].AutoBanFlag
          \/ cl.ProxyPool[cl'.routed.addr].LiftBanTime = "past"]_vars

\* ------------------------------------------------------------------------
\* core/codec/commands.go : command names and argument counts
\* ------------------------------------------------------------------------
Upper ==
    <<"A", "B", "C", "D", "E", "F", "G", "H", "I", "J", "K", "L", "M", "N", "O", "P",
      "Q", "R", "S", "T", "U", "V", "W", "X", "Y", "Z">>

Lower ==
    <<"a", "b", "c", "d", "e", "f", "g", "h", "i", "j", "k", "l", "m", "n", "o", "p",
      "q", "r", "s", "t", "u", "v", "w", "x", "y", "z">>

\* toLower on one byte: a byte from 'A' to 'Z' is xor-ed with 0x20
toLowerByte(b) ==
    IF \E i \in 1..26 : Upper[i] = b
    THEN Lower[CHOOSE i \in 1..26 : Upper[i] = b]
    ELSE b

toLower(bs) == [i \in 1..Len(bs) |-> toLowerByte(bs[i])]

\* CommandStr2Type, for the commands of the model
CommandStr2Type ==
    [name \in {<<"g", "e", "t">>, <<"m", "g", "e", "t">>, <<"d", "e", "l">>,
               <<"m", "s", "e", "t">>, <<"s", "e", "t">>, <<"e", "v", "a", "l">>,
               <<"p", "i", "n", "g">>, <<"q", "u", "i", "t">>, <<"a", "u", "t", "h">>} |->
        CASE name = <<"g", "e", "t">> -> "ReqGet"
          [] name = <<"m", "g", "e", "t">> -> "ReqMget"
          [] name = <<"d", "e", "l">> -> "ReqDel"
          [] name = <<"m", "s", "e", "t">> -> "ReqMset"
          [] name = <<"s", "e", "t">> -> "ReqSet"
          [] name = <<"e", "v", "a", "l">> -> "ReqEval"
          [] name = <<"p", "i", "n", "g">> -> "ReqPing"
          [] name = <<"q", "u", "i", "t">> -> "ReqQuit"
          [] name = <<"a", "u", "t", "h">> -> "ReqAuth"]

Nargsz == 0
Nargs0 == 1
NargsInf == -1
NargsEvenInf == -2

CommandType2ArgsNumber ==
    [ReqPing |-> Nargsz, ReqQuit |-> Nargsz, ReqGet |-> Nargs0, ReqAuth |-> Nargs0,
     ReqSet |-> NargsInf, ReqEval |-> NargsInf, ReqMget |-> NargsInf,
     ReqDel |-> NargsInf, ReqMset |-> NargsEvenInf]

checkArgs(command, n) ==
    LET nargs == CommandType2ArgsNumber[command] IN
    IF nargs >= 0
    THEN IF nargs # n THEN "ReqWrongArgumentsNumber" ELSE command
    ELSE IF nargs = NargsInf
         THEN IF n < 1 THEN "ReqWrongArgumentsNumber" ELSE command
    ELSE IF n < 2 \/ n % 2 = 1 THEN "ReqWrongArgumentsNumber" ELSE command

\* Transform2Type on the command as toLower has left it
Transform2Type(command, n) ==
    IF command \in DOMAIN CommandStr2Type
    THEN checkArgs(CommandStr2Type[command], n)
    ELSE "UNKNOWN"

\* ------------------------------------------------------------------------
\* Client codec at byte level: CRespCodec.Decode
\* ------------------------------------------------------------------------
\* hashkit.Hash on byte strings: the keys of the model by their first
\* byte, every other string in slot 0
hashOf(seg) ==
    IF Len(seg) > 0 /\ seg[1] \in {"a", "b", "c", "d"} THEN Hash(seg[1]) ELSE 0

\* the end of parseLine: n bytes of payload, then CR LF
parseBulk(b, n) ==
    LET tail(rn) ==
            LET term(crlf) ==
                    IF crlf.err # "nil" THEN [b |-> crlf.b, val |-> <<>>, err |-> "ShortLine"]
                    ELSE IF crlf.val[1] # CR \/ crlf.val[2] # LF
                         THEN [b |-> crlf.b, val |-> <<>>, err |-> "BadLine"]
                    ELSE [b |-> crlf.b, val |-> rn.val, err |-> "nil"]
            IN IF rn.err # "nil" THEN rn ELSE term(ReadN(rn.b, 2))
    IN tail(ReadN(b, n))

\* CRespCodec.parseLine. A length of -1 comes back as no bytes and no error
parseLine(b) ==
    LET line(l) ==
            LET bulk(pl) ==
                    IF pl.n < 0 \/ pl.err # "nil"
                    THEN [b |-> l.b, val |-> <<>>, err |-> pl.err]
                    ELSE parseBulk(l.b, pl.n)
            IN IF l.err # "nil" THEN l
               ELSE IF l.val[1] = "$" THEN bulk(parseLen(Tail(l.val)))
               ELSE [b |-> l.b, val |-> <<>>, err |-> "ErrInvalidResp"]
    IN line(ReadLine(b))

\* n calls of parseLine, as the loops of Frag1, Frag2, Eval and Default
\* make them: the arguments read, or the first error
RECURSIVE parseLines(_, _, _)
parseLines(b, n, acc) ==
    LET next(p) ==
            IF p.err # "nil" THEN [b |-> p.b, args |-> acc, err |-> p.err]
            ELSE parseLines(p.b, n - 1, Append(acc, p.val))
    IN IF n <= 0 THEN [b |-> b, args |-> acc, err |-> "nil"]
       ELSE next(parseLine(b))

\* a Frag1 that keeps, for every slot, the last key of the slot only
Frag1Last(keys) ==
    [slot \in {hashOf(keys[i]) : i \in 1..Len(keys)} |->
        <<keys[CHOOSE i \in 1..Len(keys) :
                  /\ hashOf(keys[i]) = slot
                  /\ \A j \in (i + 1)..Len(keys) : hashOf(keys[j]) # slot]>>]

\* Frag1 : resp.Frags, the keys of every slot in the order of the request
Frag1Of(keys) ==
    [slot \in {hashOf(keys[i]) : i \in 1..Len(keys)} |->
        SelectSeq(keys, LAMBDA k : hashOf(k) = slot)]

\* Frag2 : resp.Frags2, the key/value pairs of every slot
Frag2Of(args) ==
    LET pairs == [i \in 1..(Len(args) \div 2) |-> <<args[2 * i - 1], args[2 * i]>>] IN
    [slot \in {hashOf(pairs[i][1]) : i \in 1..Len(pairs)} |->
        SelectSeq(pairs, LAMBDA p : hashOf(p[1]) = slot)]

\* the bulk string the codec builds for k
bulkOf(k) == <<"$">> \o Itoa(Len(k)) \o LFCRByte \o k \o LFCRByte

\* CRespCodec.MGet and CRespCodec.Del : one Frag per slot of resp.Frags;
\* head is "\r\n$4\r\nmget\r\n" or "\r\n$3\r\ndel\r\n"
FragsOf(frags, head) ==
    [slot \in DOMAIN frags |->
        [Key |-> frags[slot][1],
         Req |-> <<"*">> \o Itoa(Len(frags[slot]) + 1) \o head \o
                 Concat([i \in 1..Len(frags[slot]) |-> bulkOf(frags[slot][i])])]]

MGetOf(frags) ==
    FragsOf(frags, <<CR, LF, "$", "4", CR, LF, "m", "g", "e", "t", CR, LF>>)

DelOf(frags) ==
    FragsOf(frags, <<CR, LF, "$", "3", CR, LF, "d", "e", "l", CR, LF>>)

\* CRespCodec.MSet : one Frag per slot of resp.Frags2
MSetOf(frags2) ==
    [slot \in DOMAIN frags2 |->
        [Key |-> frags2[slot][1][1],
         Req |-> <<"*">> \o Itoa(Len(frags2[slot]) * 2 + 1) \o
                 <<CR, LF, "$", "4", CR, LF, "m", "s", "e", "t", CR, LF>> \o
                 Concat([i \in 1..Len(frags2[slot]) |->
                            bulkOf(frags2[slot][i][1]) \o bulkOf(frags2[slot][i][2])])]]

\* CRespCodec.Default and CRespCodec.Eval : one Frag that holds the bytes
\* read so far, keyed by the argument at index at
DefaultOf(b, args, at) ==
    LET key == IF Len(args) > at THEN args[at + 1] ELSE <<>>
        slot == IF Len(args) > at THEN hashOf(key) ELSE 0
    IN [s \in {slot} |-> [Key |-> key, Req |-> ReadBuf(b)]]

\* what Decode returns: no Msg and the error err (which is "nil" when the
\* code returns a nil error with a nil Msg)
NoMsg(err) ==
    [nil |-> TRUE, err |-> err, Type |-> "UNKNOWN", Keys |-> <<>>, Body |-> NoMap,
     read |-> 0]

\* Decode after the command: the arguments and the fragments. b is the
\* buffer behind the command, in which toLower has rewritten the command
decodeArgs(b, Type, n) ==
    LET made(p) ==
            LET T == IF Type \in {"ReqEval", "ReqEvalsha"} /\ n < 3
                     THEN "ReqWrongArgumentsNumber" ELSE Type
            IN IF p.err # "nil" THEN NoMsg(p.err)
               ELSE [nil |-> FALSE, err |-> "nil", Type |-> T,
                     Keys |-> IF Type \in {"ReqMget", "ReqDel"} THEN p.args
                              ELSE IF Type = "ReqMset"
                                   THEN [i \in 1..(Len(p.args) \div 2) |-> p.args[2 * i - 1]]
                              ELSE <<>>,
                     Body |-> CASE Type = "ReqMget" -> MGetOf(Frag1Of(p.args))
                                [] Type = "ReqDel" -> DelOf(Frag1Of(p.args))
                                [] Type = "ReqMset" -> MSetOf(Frag2Of(p.args))
                                [] Type \in {"ReqEval", "ReqEvalsha"} -> DefaultOf(p.b, p.args, 2)
                                [] OTHER -> DefaultOf(p.b, p.args, 0),
                     read |-> p.b.r]
    IN made(parseLines(b, n, <<>>))

\* the bytes of buffer b with those of the argument just read, which end
\* two bytes before b.r, replaced by their lower-case form
lowered(b, val) ==
    [b EXCEPT !.buf = [i \in 1..Len(@) |->
                          IF b.r - 2 - Len(val) < i /\ i <= b.r - 2
                          THEN toLowerByte(@[i]) ELSE @[i]]]

\* CRespCodec.sizeTooLarge
csizeTooLarge(size) == size > CMsgMaxLength

\* CRespCodec.Decode on the bytes bs that Peek returns
Decode(bs) ==
    LET command(n, c) ==
            LET kind(T) ==
                    decodeArgs(lowered(c.b, c.val),
                               IF csizeTooLarge(Len(bs)) THEN "ReqTooLarge" ELSE T, n - 1)
            IN IF c.err # "nil" THEN NoMsg(c.err)
               ELSE kind(Transform2Type(toLower(c.val), n - 1))
        header(l) ==
            LET count(pl) ==
                    IF pl.n < 1 \/ pl.err # "nil" THEN NoMsg(pl.err)
                    ELSE command(pl.n, parseLine(l.b))
            IN IF l.err # "nil" THEN NoMsg("ErrIncompletePacket")
               ELSE IF l.val[1] = "*" THEN count(parseLen(Tail(l.val)))
               ELSE NoMsg("ErrInvalidResp")
    IN IF Len(bs) < 1 THEN NoMsg("ErrIncompletePacket")
       ELSE header(ReadLine(NewBuffer(bs)))

\* ------------------------------------------------------------------------
\* A client connection at byte level: eventloop.cread over the codec
\* ------------------------------------------------------------------------
\* conn.Peek(0): the bytes kept from earlier reads, then those just read
Peek(D) == D.inboundBuffer \o D.buffer

\* conn.Discard
Discard(D, n) ==
    IF Len(D.inboundBuffer) + Len(D.buffer) < n \/ n <= 0
    THEN [D EXCEPT !.inboundBuffer = <<>>, !.buffer = <<>>]
    ELSE IF Len(D.inboundBuffer) = 0
         THEN [D EXCEPT !.buffer = SubSeq(@, n + 1, Len(@))]
    ELSE IF n < Len(D.inboundBuffer)
         THEN [D EXCEPT !.inboundBuffer = SubSeq(@, n + 1, Len(@))]
    ELSE [D EXCEPT !.inboundBuffer = <<>>,
                   !.buffer = SubSeq(@, n - Len(D.inboundBuffer) + 1, Len(@))]

\* what OnCReact answers by itself to the Msg r: the reply (none when the
\* fragments of r are to be forwarded) and the action
OnCReactOf(r, password) ==
    IF Command[r.Type] <= Command.UNKNOWN \/ Command[r.Type] >= Command.Sentinel
    THEN [out |-> ErrUnKnownCommand, action |-> "None"]
    ELSE CASE r.Type = "ReqTooLarge" -> [out |-> ErrMsgReqTooLarge, action |-> "None"]
           [] r.Type = "ReqWrongArgumentsNumber" ->
                 [out |-> ErrMsgReqWrongArgumentsNumber, action |-> "None"]
           [] r.Type = "ReqPing" -> [out |-> PONG, action |-> "None"]
           [] r.Type = "ReqQuit" -> [out |-> OK, action |-> "Close"]
           [] r.Type = "ReqAuth" /\ DOMAIN r.Body # {} ->
                 LET first == r.Body[CHOOSE slot \in DOMAIN r.Body : TRUE] IN
                 IF Len(password) < 1
                 THEN [out |-> ErrAuthNeedNtPassword, action |-> "None"]
                 ELSE IF password # first.Key
                      THEN [out |-> ErrAuthInvalidPassword, action |-> "None"]
                 ELSE [out |-> OK, action |-> "None"]
           [] OTHER -> [out |-> <<>>, action |-> "None"]

\* eventloop.closeConn of the client connection
closeClient(D) ==
    [D EXCEPT !.opened = FALSE, !.inboundBuffer = <<>>, !.buffer = <<>>]

\* the loop of eventloop.cread. Every Msg the codec hands to OnCReact is
\* noted in msgs with the bytes it was decoded from, and whether OnCReact
\* goes on to forward its fragments
RECURSIVE creadLoop(_)
creadLoop(D) ==
    LET react(d, raw) ==
            LET written(a) ==
                    LET D1 == [Discard(D, d.read) EXCEPT
                                  !.msgs = Append(@, [Type |-> d.Type, Keys |-> d.Keys,
                                                      Body |-> d.Body, raw |-> raw,
                                                      forward |-> a.out = <<>>]),
                                  !.out = IF a.out = <<>> THEN @ ELSE Append(@, a.out)]
                    IN IF a.action = "Close" THEN closeClient(D1) ELSE creadLoop(D1)
            IN written(OnCReactOf(d, D.Password))
        decoded(d) ==
            IF d.err = "ErrInvalidResp" THEN closeClient(D)
            ELSE IF d.err # "nil"
                 THEN [D EXCEPT !.inboundBuffer = @ \o D.buffer, !.buffer = <<>>]
            ELSE IF d.nil THEN [D EXCEPT !.status = "panic"]
            ELSE react(d, SubSeq(Peek(D), 1, d.read))
    IN decoded(Decode(Peek(D)))

\* eventloop.read on the client connection: n bytes come from the socket
read(D, n) ==
    creadLoop([D EXCEPT !.buffer = SubSeq(D.peer, 1, n),
                        !.peer = SubSeq(@, n + 1, Len(@))])

\* ------------------------------------------------------------------------
\* What the client sends
\* ------------------------------------------------------------------------
\* a request as a client encodes it: an array of bulk strings
Frame(args) ==
    <<"*">> \o Itoa(Len(args)) \o LFCRByte \o
    Concat([i \in 1..Len(args) |-> <<"$">> \o Itoa(Len(args[i])) \o LFCRByte \o
                                   args[i] \o LFCRByte])

get == <<"g", "e", "t">>
mget == <<"m", "g", "e", "t">>
del == <<"d", "e", "l">>
mset == <<"m", "s", "e", "t">>

\* well-formed requests of commands the proxy forwards
ForwardedFrames ==
    {Frame(<<get, <<"a">>>>),
     Frame(<<<<"G", "E", "T">>, <<"b">>>>),
     Frame(<<<<"s", "e", "t">>, <<"a">>, <<"v">>>>),
     Frame(<<<<"e", "v", "a", "l">>, <<"s">>, <<"1">>, <<"c">>>>),
     Frame(<<mget, <<"a">>, <<"b">>>>),
     Frame(<<<<"M", "G", "E", "T">>, <<"a">>, <<"b">>, <<"d">>>>),
     Frame(<<del, <<"d">>, <<"c">>, <<"a">>>>),
     Frame(<<del, <<"a">>, <<"a">>>>),
     Frame(<<mset, <<"a">>, <<"1">>, <<"b">>, <<"2">>>>),
     Frame(<<mset, <<"d">>, <<"1">>, <<"a">>, <<"2">>>>)}

\* well-formed requests the proxy answers itself: PING, QUIT, AUTH with the
\* password and with another one, an unknown command, requests with a wrong
\* number of arguments, a request of CMsgMaxLength + 1 bytes
AnsweredFrames ==
    {Frame(<<<<"p", "i", "n", "g">>>>),
     Frame(<<<<"q", "u", "i", "t">>>>),
     Frame(<<<<"a", "u", "t", "h">>, Secret>>),
     Frame(<<<<"a", "u", "t", "h">>, <<"q">>>>),
     Frame(<<<<"x">>, <<"a">>>>),
     Frame(<<get>>),
     Frame(<<mset, <<"a">>, <<"1">>, <<"b">>>>),
     Frame(<<mset, <<"a">>, <<"1">>, <<"b">>, <<"2", "2">>>>)}

\* several requests sent one behind the other
Pipelines ==
    {<<Frame(<<get, <<"a">>>>), Frame(<<<<"G", "E", "T">>, <<"b">>>>)>>,
     <<Frame(<<mget, <<"a">>, <<"b">>>>), Frame(<<get, <<"a">>>>)>>,
     <<Frame(<<<<"p", "i", "n", "g">>>>), Frame(<<del, <<"a">>, <<"a">>>>)>>,
     <<Frame(<<<<"q", "u", "i", "t">>>>), Frame(<<get, <<"a">>>>)>>}

\* requests whose array header is refused
BadHeaders ==
    {<<"*", "0", CR, LF>>,
     <<"*", "-", "1", CR, LF>>,
     <<"+", "x", CR, LF>>,
     <<"$", "3", CR, LF, "g", "e", "t", CR, LF>>}

\* requests with a malformed argument: a line that does not start with `$`,
\* lengths that are no numbers, an empty length, a payload without CR LF
BadArguments ==
    {<<"*", "2", CR, LF, "$", "3", CR, LF, "g", "e", "t", CR, LF, "+", "a", CR, LF>>,
     <<"*", "2", CR, LF, "$", "3", CR, LF, "g", "e", "t", CR, LF, "$", "x", CR, LF>>,
     <<"*", "2", CR, LF, "$", "3", CR, LF, "g", "e", "t", CR, LF, "$", "-", "2", CR, LF>>,
     <<"*", "2", CR, LF, "$", "3", CR, LF, "g", "e", "t", CR, LF, "$", CR, LF>>,
     <<"*", "2", CR, LF, "$", "3", CR, LF, "g", "e", "t", CR, LF, "$", "1", CR, LF,
       "a", "b", "c", CR, LF>>}

\* the sequences of frames a client sends over one connection
FrameSeqs ==
    {<<f>> : f \in ForwardedFrames \cup AnsweredFrames \cup BadHeaders \cup BadArguments}
    \cup Pipelines

InitCodec ==
    /\ Starts(InitWorld)
    /\ agg = NoAgg
    /\ cl = NoCluster
    /\ eng = NoEngine
    /\ \E frames \in FrameSeqs, password \in {<<>>, Secret} :
          cdc = [NoCodec EXCEPT !.frames = frames, !.peer = Concat(frames),
                                !.Password = password]

\* a read event on the client connection that finds n bytes in the socket
CodecRead ==
    /\ cdc.status = "run"
    /\ cdc.opened
    /\ \E n \in 1..Len(cdc.peer) : cdc' = read(cdc, n)
    /\ UNCHANGED <<status, msgId, fragId, msg, used, pooled, frag, cconn, cout,
                   sconn, nconn, pool, tree, tasks, wire, agg, cl, eng>>

NextCodec == CodecRead

SpecCodec == InitCodec /\ [][NextCodec]_vars

\* ------------------------------------------------------------------------
\* Properties of the client codec
\* ------------------------------------------------------------------------
\* the client sends well-formed requests only
ValidFrames ==
    cdc.frames \in {<<f>> : f \in ForwardedFrames \cup AnsweredFrames} \cup Pipelines

\* the first line of what the client sends has been read from the socket
HeaderRead ==
    Len(Concat(cdc.frames)) - Len(cdc.peer) > IndexByte(Concat(cdc.frames), LF)

\* C15: a request whose array header has a count below 1, or whose first
\* byte is not `*`, gets the client connection closed; no Msg of it reaches
\* OnCReact, and the event loop goes on running
C15_BadHeader ==
    (cdc.frames \in {<<f>> : f \in BadHeaders} /\ HeaderRead)
    => /\ ~cdc.opened
       /\ cdc.msgs = <<>>
       /\ cdc.status = "run"

\* C16: when a request with a malformed argument has been read to its end,
\* the client connection is closed and nothing was written to it
C16_BadArgument ==
    (cdc.frames \in {<<f>> : f \in BadArguments} /\ cdc.peer = <<>>)
    => /\ ~cdc.opened
       /\ cdc.out = <<>>

\* C17: a well-formed request is of kind ReqTooLarge exactly when its own
\* frame is longer than CMsgMaxLength, whatever else is buffered with it,
\* and then it is answered `-ERR req msg length too large`
C17_OwnLength ==
    ValidFrames
    => \A i \in 1..Len(cdc.msgs) :
          /\ (cdc.msgs[i].Type = "ReqTooLarge") <=> (Len(cdc.frames[i]) > CMsgMaxLength)
          /\ cdc.msgs[i].Type = "ReqTooLarge"
             => \E k \in 1..Len(cdc.out) : cdc.out[k] = ErrMsgReqTooLarge

\* what the codec hands out when the whole stream comes in one read
SingleRead ==
    read([NoCodec EXCEPT !.frames = cdc.frames, !.peer = Concat(cdc.frames),
                         !.Password = cdc.Password],
         Len(Concat(cdc.frames))).msgs

\* C18: when a stream of well-formed requests has been read, in whatever
\* chunks, the Msgs decoded (kind, fragments, request bytes of every
\* fragment) are those of the stream read at once
C18_Chunking ==
    (ValidFrames /\ (cdc.peer = <<>> \/ ~cdc.opened)) => cdc.msgs = SingleRead

\* the arguments of a RESP array of bulk strings, command name first; no
\* arguments when the bytes are not exactly one such array
ArgsOf(bs) ==
    LET l == ReadLine(NewBuffer(bs))
        p == parseLines(l.b, parseLen(Tail(l.val)).n, <<>>)
    IN IF l.err = "nil" /\ p.err = "nil" /\ p.b.r = Len(bs) THEN p.args ELSE <<>>

\* the pairs <<key, value>> of the arguments args of an MSET
PairsOf(args) == [i \in 1..(Len(args) \div 2) |-> <<args[2 * i - 1], args[2 * i]>>]

\* the Msg m of a multi-key request has one Frag for every slot of its
\* keys, and the Frag of a slot is the command of m in lower case with the
\* keys (pairs) of that slot in the order of the request
SplitBySlot(m) ==
    LET args == ArgsOf(m.raw)
        keys == IF m.Type = "ReqMset"
                THEN [i \in 1..Len(PairsOf(Tail(args))) |-> PairsOf(Tail(args))[i][1]]
                ELSE Tail(args)
    IN /\ DOMAIN m.Body = {hashOf(keys[i]) : i \in 1..Len(keys)}
       /\ \A s \in DOMAIN m.Body :
             LET sent == ArgsOf(m.Body[s].Req) IN
             /\ Len(sent) > 0
             /\ sent[1] = toLower(args[1])
             /\ IF m.Type = "ReqMset"
                THEN PairsOf(Tail(sent)) =
                         SelectSeq(PairsOf(Tail(args)), LAMBDA p : hashOf(p[1]) = s)
                     /\ Len(Tail(sent)) % 2 = 0
                ELSE Tail(sent) = SelectSeq(keys, LAMBDA k : hashOf(k) = s)

\* the bytes of the frame raw with its command name in lower case
LowerCommand(raw) ==
    LET c == parseLine(ReadLine(NewBuffer(raw)).b) IN lowered(c.b, c.val).buf

\* C19 as the code has it: a forwarded MGET, DEL or MSET is split by slot;
\* any other forwarded request has one Frag, whose bytes are the frame of
\* the request with the command name in lower case
C19_Fragments ==
    \A i \in 1..Len(cdc.msgs) :
        LET m == cdc.msgs[i] IN
        m.forward =>
            IF m.Type \in {"ReqMget", "ReqDel", "ReqMset"} THEN SplitBySlot(m)
            ELSE /\ Cardinality(DOMAIN m.Body) = 1
                 /\ \A s \in DOMAIN m.Body : m.Body[s].Req = LowerCommand(m.raw)

\* C19 as stated: a forwarded MGET, DEL or MSET is split by slot; any other
\* forwarded request has one Frag, whose bytes are the frame of the request
C19_Verbatim ==
    \A i \in 1..Len(cdc.msgs) :
        LET m == cdc.msgs[i] IN
        m.forward =>
            IF m.Type \in {"ReqMget", "ReqDel", "ReqMset"} THEN SplitBySlot(m)
            ELSE /\ Cardinality(DOMAIN m.Body) = 1
                 /\ \A s \in DOMAIN m.Body : m.Body[s].Req = m.raw

\* an MGET of three keys, two of them in one slot, has been decoded into
\* two fragments and is forwarded
C19_Split ==
    /\ Len(cdc.msgs) = 1
    /\ cdc.peer = <<>>
    /\ cdc.msgs[1].forward
    /\ cdc.msgs[1].Type = "ReqMget"
    /\ Cardinality(DOMAIN cdc.msgs[1].Body) = 2
    /\ Len(cdc.msgs[1].Keys) = 3

\* ------------------------------------------------------------------------
\* Requests the proxy answers by itself (listenServer.OnCReact): a client
\* sends them among forwarded ones, with and without a configured password
\* ------------------------------------------------------------------------
\* the kinds of request OnCReact answers before, or instead of, routing
InlineTypes ==
    {"UNKNOWN", "ReqTooLarge", "ReqWrongArgumentsNumber", "ReqPing", "ReqQuit", "ReqAuth"}

\* the requests of the client, as CRespCodec.Decode classifies them
InlineRequests ==
    {[Type |-> "ReqGet", Keys |-> <<"a">>],
     [Type |-> "ReqPing", Keys |-> <<>>],
     [Type |-> "ReqQuit", Keys |-> <<>>],
     [Type |-> "ReqAuth", Keys |-> <<"p">>],
     [Type |-> "ReqAuth", Keys |-> <<"q">>],
     [Type |-> "UNKNOWN", Keys |-> <<"a">>],
     [Type |-> "ReqTooLarge", Keys |-> <<"a">>],
     [Type |-> "ReqWrongArgumentsNumber", Keys |-> <<>>]}

InitInline ==
    /\ Starts(InitWorld)
    /\ agg = NoAgg
    /\ cl = NoCluster
    /\ eng = NoEngine
    /\ \E password \in {<<>>, Secret} : cdc = [NoCodec EXCEPT !.Password = password]

\* a read event on client connection c carrying one request; cdc.msgs keeps
\* the request the codec decoded last
InlineRead(c) ==
    /\ status = "run"
    /\ cconn[c].opened
    /\ msgId < MaxInlineMsgs
    /\ \E req \in InlineRequests, o \in MsgPoolGet(World) :
          LET body == DOMAIN CDecode(World, c, req, o).msg[o].Body IN
          \E ord \in Orders(body), oks \in [body -> BOOLEAN] :
              /\ Becomes(cread(World, c, req, o, ord, oks))
              /\ cdc' = [cdc EXCEPT !.msgs = <<[Type |-> req.Type, Keys |-> req.Keys,
                                                Owner |-> c]>>]
    /\ UNCHANGED <<agg, cl, eng>>

NextInline ==
    \/ \E c \in Clients : InlineRead(c)
    \/ RunTask
    \/ \E s \in ConnIds : ShardRead(s)

SpecInline == InitInline /\ [][NextInline]_vars

\* what the proxy answers to a request it does not forward
InlineReply(req) ==
    CASE req.Type = "UNKNOWN" -> ErrUnKnownCommand
      [] req.Type = "ReqTooLarge" -> ErrMsgReqTooLarge
      [] req.Type = "ReqWrongArgumentsNumber" -> ErrMsgReqWrongArgumentsNumber
      [] req.Type = "ReqPing" -> PONG
      [] req.Type = "ReqQuit" -> OK
      [] req.Type = "ReqAuth" ->
            IF cdc.Password = <<>> THEN ErrAuthNeedNtPassword
            ELSE IF cdc.Password = KeyBytes(req.Keys[1]) THEN OK
            ELSE ErrAuthInvalidPassword

\* the step in which the event loop handles a request of client c that is
\* PING, QUIT, AUTH, unknown, too large or of a wrong number of arguments
HandlesInline(c) ==
    /\ msgId' = msgId + 1
    /\ cdc'.msgs # <<>>
    /\ cdc'.msgs[1].Owner = c
    /\ cdc'.msgs[1].Type \in InlineTypes

\* C20: handling PING, QUIT, AUTH, an unknown command, a wrong number of
\* arguments or a too large request writes the proxy's own answer to the
\* client (for AUTH the one the configured password alone decides) and
\* leaves every shard connection's queues, the pools, the dialled
\* connections, the timeout index and the poller's tasks as they were; no
\* Msg is put on a client's inMsgQueue
C20_Inline ==
    [][\A c \in Clients :
          HandlesInline(c) =>
             /\ cout'[c] = Append(cout[c], [id |-> msgId', body |-> InlineReply(cdc'.msgs[1])])
             /\ sconn' = sconn
             /\ pool' = pool
             /\ nconn' = nconn
             /\ wire' = wire
             /\ tree' = tree
             /\ tasks' = tasks
             /\ \A d \in Clients :
                   \A i \in 1..Len(cconn'[d].inMsgQueue) :
                       /\ i <= Len(cconn[d].inMsgQueue)
                       /\ cconn'[d].inMsgQueue[i] = cconn[d].inMsgQueue[i]]_vars

\* every answer to AUTH has been given, next to a forwarded request that
\* waits on a shard connection
C20_Answered ==
    /\ cdc.msgs # <<>>
    /\ cdc.msgs[1].Type = "ReqAuth"
    /\ \E c \in Clients :
          /\ Len(cout[c]) > 0
          /\ cout[c][Len(cout[c])].body \in {OK, ErrAuthInvalidPassword, ErrAuthNeedNtPassword}
          /\ Len(cconn[c].inMsgQueue) > 0
    /\ \E s \in ConnIds : Len(wire[s]) > 0

\* ------------------------------------------------------------------------
\* Properties of the topology refresh, of shard connections and of the pools
\* ------------------------------------------------------------------------
\* a line of a CLUSTER NODES reply names a node that is not skipped: its
\* flags hold a role and none of noaddr, handshake, fail; its link is up;
\* if it is a replica at an address not seen before, INFO answers with
\* loading:0 and master_link_status:up
Survives(C, line) ==
    /\ line.Flags \cap {"noaddr", "handshake", "fail", "fail?"} = {}
    /\ line.Flags \cap {"master", "slave"} # {}
    /\ line.Link # "disconnected"
    /\ ("master" \notin line.Flags /\ line.Addr \notin DOMAIN C.ServerMap)
       => line.Info = "up"

\* the step in which loopClusterNodes receives a reply with fewer than
\* three surviving nodes
FewSurvive ==
    /\ cl'.updates = cl.updates + 1
    /\ Cardinality({i \in 1..Len(cl'.reply) : Survives(cl, cl'.reply[i])}) < 3

\* C21: a CLUSTER NODES reply with fewer than three surviving nodes leaves
\* the node map, the Replicasets, the names kept for the next comparison
\* and serverChanged as they were, and starts no installation
C21_Rejected ==
    [][FewSurvive =>
          /\ cl'.ServerMap = cl.ServerMap
          /\ cl'.heap = cl.heap
          /\ cl'.array = cl.array
          /\ cl'.len = cl.len
          /\ cl'.lastServerNames = cl.lastServerNames
          /\ cl'.serverChanged = cl.serverChanged
          /\ cl'.Slots2Node = cl.Slots2Node
          /\ cl'.pc = "idle"]_vars

\* a reply with two surviving nodes has come after a topology was installed
\* and loaded, which is still in force
C21_Retained ==
    /\ cl.updates >= 2
    /\ cl.pc = "idle"
    /\ Cardinality({i \in 1..Len(cl.reply) : Survives(cl, cl.reply[i])}) < 3
    /\ Cardinality(DOMAIN cl.ServerMap) = 3
    /\ cl.len > 0
    /\ \E s \in SlotIds : cl.Slots2Node[s] # 0

\* ------------------------------------------------------------------------
\* Backends that never answer: requests leave a shard connection only by
\* the sweep or by the closing of the connection. The loop keeps running.
\* ------------------------------------------------------------------------
NextOrphan ==
    \/ \E c \in Clients : ClientRead(c)
    \/ RunTask
    \/ Sweep
    \/ Tick
    \/ \E s \in ConnIds : ShardClose(s)
    \/ \E c \in Clients : ClientClose(c)

SpecOrphan ==
    Init /\ [][NextOrphan]_vars /\ WF_vars(RunTask) /\ WF_vars(Sweep) /\ WF_vars(Tick)

\* Fragment f was forwarded for a client that is still open, is not done,
\* and the shard connection it stood on has been closed: it stands on no
\* shard connection any more
Orphan(f) ==
    /\ frag[f].Owner # 0
    /\ cconn[frag[f].Owner].opened
    /\ ~frag[f].Done
    /\ frag[f].Peer \in Queued(frag[f].Owner)
    /\ ~msg[frag[f].Peer].Done
    /\ \A s \in ConnIds :
          /\ f \notin Range(sconn[s].inFragQueue)
          /\ f \notin Range(sconn[s].outFragQueue)

\* the owner of Fragment f has closed, or has been sent the timeout error
\* for the request of f
Surfaced(f) ==
    \/ status # "run"
    \/ frag[f].Owner = 0
    \/ ~cconn[frag[f].Owner].opened
    \/ \E i \in 1..Len(cout[frag[f].Owner]) :
          cout[frag[f].Owner][i].body = ErrMsgRequestTimeout

\* C22: a Fragment left behind by the closing of its shard connection, with
\* its client open and its Message not done, is not put on another
\* connection, and its client is eventually sent `-ERR proxy request
\* timeout`
C22_Orphans == \A f \in FragIds : Orphan(f) ~> Surfaced(f)

\* ------------------------------------------------------------------------
\* The stop of the engine (core/gnet.go, engine.stop): serve() returns into
\* the deferred stop(), which waits on the condition variable for the
\* signal the goroutine of the event loop gives when run() returns
\* ------------------------------------------------------------------------
\* the variables of the event loop
loopVars ==
    <<status, msgId, fragId, msg, used, pooled, frag, cconn, cout, sconn, nconn,
      pool, tree, tasks, wire>>

\* eventloop.closeAllSockets
RECURSIVE closeAllSockets(_, _)
closeAllSockets(W, n) ==
    IF n = 0 THEN W
    ELSE closeAllSockets(IF n <= MaxConns THEN closeSConn(W, n)
                         ELSE closeCConn(W, n - MaxConns), n - 1)

\* engine.signalShutdown: once, Signal wakes a goroutine that waits on cond
\* and is lost when none does
signalShutdown(E) ==
    IF E.once THEN E
    ELSE [E EXCEPT !.once = TRUE, !.stop = IF @ = "wait" THEN "woken" ELSE @]

\* engine.waitForShutdown up to cond.Wait, which parks the goroutine
WaitForShutdown ==
    /\ eng.stop = "serve"
    /\ eng' = [eng EXCEPT !.stop = "wait"]
    /\ UNCHANGED <<loopVars, agg, cl, cdc>>

\* Polling has returned ErrEngineShutdown to eventloop.run, whose deferred
\* function closes the sockets and signals the shutdown
RunReturns ==
    /\ status = "shutdown"
    /\ eng.loop = "run"
    /\ Becomes(closeAllSockets(World, MaxConns + NClients))
    /\ eng' = [signalShutdown(eng) EXCEPT !.loop = "returned"]
    /\ UNCHANGED <<agg, cl, cdc>>

\* the goroutine started by startEventLoop ends: eng.wg.Done()
WgDone ==
    /\ eng.loop = "returned"
    /\ eng' = [eng EXCEPT !.loop = "done"]
    /\ UNCHANGED <<loopVars, agg, cl, cdc>>

\* engine.stop after waitForShutdown: OnShutdown and the UrgentTrigger
StopTriggers ==
    /\ eng.stop = "woken"
    /\ eng' = [eng EXCEPT !.stop = "wgWait"]
    /\ UNCHANGED <<loopVars, agg, cl, cdc>>

\* engine.stop after eng.wg.Wait(): closeEventLoops and inShutdown
StopCompletes ==
    /\ eng.stop = "wgWait"
    /\ eng.loop = "done"
    /\ eng' = [eng EXCEPT !.stop = "done", !.inShutdown = 1]
    /\ UNCHANGED <<loopVars, agg, cl, cdc>>

NextStop ==
    \/ \E c \in Clients : ClientRead(c)
    \/ RunTask
    \/ \E s \in ConnIds : ShardRead(s)
    \/ WaitForShutdown
    \/ RunReturns
    \/ WgDone
    \/ StopTriggers
    \/ StopCompletes

\* both goroutines are scheduled again and again
SpecStop ==
    /\ Init /\ [][NextStop]_vars
    /\ WF_vars(WaitForShutdown) /\ WF_vars(RunReturns) /\ WF_vars(WgDone)
    /\ WF_vars(StopTriggers) /\ WF_vars(StopCompletes)

\* C23: when the event loop has ended on an auth-level error of a backend,
\* engine.stop eventually completes and sets inShutdown, however the
\* signal of the loop and the waiting of stop() interleave
C23_Shutdown == (status = "shutdown") ~> (eng.inShutdown = 1)

\* C24: the ticker of the event loop reads the node map and the Replicasets
\* (it reloads the pools and the slot map and clears serverChanged) only
\* when no other goroutine is in the middle of writing them
C24_LoopOnly ==
    [][(cl.serverChanged /\ ~cl'.serverChanged) => cl.pc = "idle"]_vars

\* the step in which the reply decoded for Fragment f, the head of
\* in_frag_queue of shard connection s and not done, is a MOVED or ASK line
Redirected(s, f) ==
    /\ status' = "run"
    /\ sconn[s].opened /\ sconn'[s].opened
    /\ Len(wire[s]) > 0 /\ wire'[s] = Tail(wire[s])
    /\ Len(sconn[s].inFragQueue) > 0 /\ f = Head(sconn[s].inFragQueue)
    /\ sconn'[s].inFragQueue = Tail(sconn[s].inFragQueue)
    /\ frag'[f].Type \in {"RspMoved", "RspAsk"}
    /\ ~frag[f].Done
    /\ frag[f].Peer # 0
    /\ ~msg[frag[f].Peer].Done

\* C25: handling a MOVED or ASK reply for a Fragment leaves the count of
\* done Fragments, the done flag and the reply buffer of its Message as
\* they were and the Fragment not done; the reply buffer of the Fragment is
\* emptied and the same Fragment, still pointing to its Message, is put on
\* a connection to another address
C25_Moved ==
    [][\A s \in ConnIds : \A f \in FragIds :
          Redirected(s, f) =>
             /\ msg'[frag[f].Peer].FragDoneNumber = msg[frag[f].Peer].FragDoneNumber
             /\ msg'[frag[f].Peer].Done = msg[frag[f].Peer].Done
             /\ msg'[frag[f].Peer].RspBody = msg[frag[f].Peer].RspBody
             /\ ~frag'[f].Done
             /\ frag'[f].RspBody = <<>>
             /\ frag'[f].Peer = frag[f].Peer
             /\ \E t \in ConnIds :
                   /\ sconn'[t].opened
                   /\ sconn'[t].addr # sconn[s].addr
                   /\ f \in Range(sconn'[t].outFragQueue)]_vars

\* ------------------------------------------------------------------------
\* The ban of one pool in milliseconds: listenServer.getConn after
\* pool.Get(), Pool.monitor, and the clock
\* ------------------------------------------------------------------------
MaxLiftBanOrder == 5

\* the period Pool.monitor bans for: 60 * time.Second
MonitorBanPeriod == 60000

\* a getConn that goes on counting
getConnUncapped(P, now, got) ==
    IF got THEN [P EXCEPT !.LiftBanOrder = 0]
    ELSE [P EXCEPT !.LiftBanTime = now + ServerRetryTimeout * 2^P.LiftBanOrder,
                   !.LiftBanOrder = @ + 1,
                   !.AutoBanFlag = TRUE]

\* listenServer.getConn from `conn := pool.Get()` on, for the pool P at the
\* time now; got: whether pool.Get returned a connection
getConnBan(P, now, got) ==
    IF got THEN [P EXCEPT !.LiftBanOrder = 0]
    ELSE [P EXCEPT !.LiftBanTime = now + ServerRetryTimeout * 2^P.LiftBanOrder,
                   !.LiftBanOrder = IF @ >= MaxLiftBanOrder THEN MaxLiftBanOrder ELSE @ + 1,
                   !.AutoBanFlag = TRUE]

\* one round of Pool.monitor; ok: whether a detect succeeded
monitorBan(P, now, ok) ==
    IF ok THEN [P EXCEPT !.LiftBanOrder = 0, !.AutoBanFlag = FALSE]
    ELSE [P EXCEPT !.LiftBanTime = now + MonitorBanPeriod, !.AutoBanFlag = TRUE]

\* engine.newPool, with the zero time.Time as 0
InitBan ==
    /\ Starts(InitWorld)
    /\ agg = NoAgg
    /\ cdc = NoCodec
    /\ eng = NoEngine
    /\ cl = [Pool |-> [LiftBanOrder |-> 0, LiftBanTime |-> 0, AutoBanFlag |-> FALSE],
             now |-> 0, turn |-> 0, err |-> "nil"]

\* OnCReact asks getConn for a connection of the pool
GetConn ==
    /\ \E got \in BOOLEAN :
          cl' = [cl EXCEPT !.Pool = getConnBan(@, cl.now, got),
                           !.turn = 1 - @,
                           !.err = IF got THEN "nil" ELSE "UnKnownProxyPoolConn"]
    /\ UNCHANGED traffic

MonitorRound ==
    /\ \E ok \in BOOLEAN : cl' = [cl EXCEPT !.Pool = monitorBan(@, cl.now, ok)]
    /\ UNCHANGED traffic

Clock ==
    /\ cl.now < MaxNow
    /\ cl' = [cl EXCEPT !.now = @ + 1]
    /\ UNCHANGED traffic

NextBan ==
    \/ GetConn
    \/ MonitorRound
    \/ Clock

SpecBan == InitBan /\ [][NextBan]_vars

\* the step in which getConn fails to get a connection from the pool
GetFails == cl'.turn # cl.turn /\ cl'.err = "UnKnownProxyPoolConn"

\* C26: a failing getConn bans the pool, adds one to its LiftBanOrder
\* unless that is 5 already, and sets LiftBanTime to now plus
\* ServerRetryTimeout * 2^order milliseconds, order being the LiftBanOrder
\* the pool had before the step; LiftBanOrder is always within 0..5
C26_Ban ==
    [][/\ cl'.Pool.LiftBanOrder \in 0..5
       /\ GetFails =>
             /\ cl'.Pool.AutoBanFlag
             /\ cl'.Pool.LiftBanOrder =
                   IF cl.Pool.LiftBanOrder = 5 THEN 5 ELSE cl.Pool.LiftBanOrder + 1
             /\ cl'.Pool.LiftBanTime =
                   cl.now + ServerRetryTimeout * 2^cl.Pool.LiftBanOrder]_vars

\* C26 as stated: the exponent is the LiftBanOrder stored by the step
C26_OrderAfter ==
    [][GetFails =>
          cl'.Pool.LiftBanTime = cl.now + ServerRetryTimeout * 2^cl'.Pool.LiftBanOrder]_vars

\* the pool has failed six times in a row and is banned at the cap
C26_Capped ==
    /\ cl.err = "UnKnownProxyPoolConn"
    /\ cl.Pool.AutoBanFlag
    /\ cl.Pool.LiftBanOrder = 5
    /\ cl.Pool.LiftBanTime = cl.now + ServerRetryTimeout * 32
    /\ cl.now > 0

\* ------------------------------------------------------------------------
\* OnCReact : the acquisition of a connection for one Fragment, with its
\* retry
\* ------------------------------------------------------------------------
\* the cluster state with the record of the attempts of the last acquisition
withTried(C, seq) ==
    [f \in DOMAIN C \cup {"tried"} |-> IF f = "tried" THEN seq ELSE C[f]]

\* lines 81-101 of OnCReact for one slot of the request: getConn is called
\* once and, if it fails and its third result (isSlave of the route) is
\* true, once more; ok1 and ok2 tell whether pool.Get() gives a connection
acquireSecond(C, Type, slot, ok2, first) ==
    LET done(D) == [D EXCEPT !.tried = <<first, D.routed>>] IN
    done(getConnOf(C, Type, slot, ok2))

acquireFirst(C, Type, slot, ok2) ==
    IF C.routed.err # "nil" /\ C.routed.isSlave
    THEN acquireSecond(C, Type, slot, ok2, C.routed)
    ELSE [C EXCEPT !.tried = <<C.routed>>]

acquire(C, Type, slot, ok1, ok2) ==
    acquireFirst(getConnOf(C, Type, slot, ok1), Type, slot, ok2)

\* pools may be missing from ProxyPool: the ticker has not yet loaded the
\* pools of a topology that the goroutine has installed
InitRetry ==
    /\ Starts(InitWorld)
    /\ agg = NoAgg
    /\ cdc = NoCodec
    /\ eng = NoEngine
    /\ \E allNodes \in Topologies, d \in BOOLEAN :
       \E gone \in SUBSET DOMAIN loaded(allNodes).ProxyPool :
          /\ Cardinality(gone) <= 1
          /\ LET C == loaded(allNodes) IN
             cl = withTried([C EXCEPT !.DisableSlave = d,
                                      !.ProxyPool = [x \in DOMAIN C.ProxyPool \ gone |->
                                                        C.ProxyPool[x]]],
                            <<>>)

Acquire ==
    /\ \E Type \in {"ReqGet", "ReqSet"}, slot \in SlotIds, ok1 \in BOOLEAN, ok2 \in BOOLEAN :
          /\ cl.Slots2Node[slot] # 0
          /\ cl' = acquire(cl, Type, slot, ok1, ok2)
    /\ UNCHANGED traffic

NextRetry ==
    \/ Acquire
    \/ Monitor
    \/ Elapse

SpecRetry == InitRetry /\ [][NextRetry]_vars

\* C27: an acquisition whose first attempt fails makes exactly one more
\* attempt, for a master as for a replica; the second attempt does not pick
\* the pool that the first one has just banned; and the Message is failed,
\* with the error of the second attempt, only when that one fails too
C27_Retry ==
    [][(cl'.tried # cl.tried /\ cl'.tried[1].err # "nil")
       => /\ Len(cl'.tried) = 2
          /\ (cl'.tried[1].err = "UnKnownProxyPoolConn"
                => cl'.tried[2].addr # cl'.tried[1].addr)]_vars

\* ------------------------------------------------------------------------
\* core/redis_pool.go : the active list of one pool
\* ------------------------------------------------------------------------
\* the largest maxActive and the number of connections a run may dial
MaxActive == 2
MaxPoolConns == 4

\* a poolConn stands by the number of its connection; 0 is nil
PoolConns == 1..MaxPoolConns

\* a popBack that forgets the count
popBackCounted(P) ==
    LET pc == P.active.back IN
    IF P.active.count - 1 = 0
    THEN [P EXCEPT !.active.front = 0, !.active.back = 0,
                   !.next[pc] = 0, !.prev[pc] = 0]
    ELSE [P EXCEPT !.next[P.prev[pc]] = 0, !.active.back = P.prev[pc],
                   !.next[pc] = 0, !.prev[pc] = 0]

\* activeList.pushFront
pushFront(P, pc) ==
    LET P1 == [P EXCEPT !.next[pc] = P.active.front, !.prev[pc] = 0]
        P2 == IF P.active.count = 0
              THEN [P1 EXCEPT !.active.back = pc]
              ELSE [P1 EXCEPT !.prev[P.active.front] = pc]
    IN [P2 EXCEPT !.active.front = pc, !.active.count = @ + 1]

\* activeList.popBack
popBack(P) ==
    LET pc == P.active.back IN
    IF P.active.count - 1 = 0
    THEN [P EXCEPT !.active.count = 0, !.active.front = 0, !.active.back = 0,
                   !.next[pc] = 0, !.prev[pc] = 0]
    ELSE [P EXCEPT !.active.count = @ - 1,
                   !.next[P.prev[pc]] = 0, !.active.back = P.prev[pc],
                   !.next[pc] = 0, !.prev[pc] = 0]

\* Pool.dial and engine.Dial: a connection that is dialed is opened before
\* Dial returns; ok tells whether the backend accepts it
poolDial(P, ok, before, dropped) ==
    IF ~ok \/ P.nconn >= MaxPoolConns
    THEN [P EXCEPT !.last = [c |-> 0, dialed |-> TRUE, before |-> before,
                             dropped |-> dropped, wasOpen |-> FALSE, wasClosed |-> FALSE]]
    ELSE LET c == P.nconn + 1 IN
         [pushFront([P EXCEPT !.nconn = c, !.opened[c] = TRUE], c)
             EXCEPT !.last = [c |-> c, dialed |-> TRUE, before |-> before,
                              dropped |-> dropped, wasOpen |-> TRUE, wasClosed |-> FALSE]]

\* the loop of Pool.Get over the back of the list
RECURSIVE rotate(_, _, _, _)
rotate(P, ok, before, dropped) ==
    IF P.active.count < 1 THEN poolDial(P, ok, before, dropped)
    ELSE IF ~P.opened[P.active.back] THEN rotate(popBack(P), ok, before, dropped + 1)
    ELSE [pushFront(popBack(P), P.active.back)
             EXCEPT !.last = [c |-> P.active.back, dialed |-> FALSE, before |-> before,
                              dropped |-> dropped, wasOpen |-> P.opened[P.active.back],
                              wasClosed |-> FALSE]]

\* Pool.Get; the result and how it was found are left in `last`
Get(P, ok) ==
    IF P.closed
    THEN [P EXCEPT !.last = [c |-> 0, dialed |-> FALSE, before |-> P.active.count,
                             dropped |-> 0, wasOpen |-> FALSE, wasClosed |-> TRUE]]
    ELSE IF P.active.count < P.maxActive THEN poolDial(P, ok, P.active.count, 0)
    ELSE rotate(P, ok, P.active.count, 0)

\* the connections linked from pc on
RECURSIVE Linked(_, _, _)
Linked(P, pc, fuel) ==
    IF pc = 0 \/ fuel = 0 THEN {} ELSE {pc} \cup Linked(P, P.next[pc], fuel - 1)

\* Pool.Release: the list is emptied and every connection that was linked
\* is asked to close, which the loop does later
Release(P) ==
    IF P.closed THEN P
    ELSE [P EXCEPT !.active = [front |-> 0, back |-> 0, count |-> 0],
                   !.closing = @ \cup Linked(P, P.active.front, MaxPoolConns)]

\* Pool.Close
Close(P) ==
    IF P.closed THEN P ELSE [Release(P) EXCEPT !.closed = TRUE]

\* Pool.SetIsSlave
SetIsSlave(P, isSlave) ==
    IF P.isSlave # isSlave THEN Release([P EXCEPT !.isSlave = isSlave]) ELSE P

\* engine.newPool
InitPool ==
    /\ Starts(InitWorld)
    /\ agg = NoAgg
    /\ cdc = NoCodec
    /\ eng = NoEngine
    /\ \E n \in 1..MaxActive :
          cl = [active |-> [front |-> 0, back |-> 0, count |-> 0],
                next |-> [c \in PoolConns |-> 0], prev |-> [c \in PoolConns |-> 0],
                opened |-> [c \in PoolConns |-> FALSE], closing |-> {},
                nconn |-> 0, maxActive |-> n, isSlave |-> FALSE, closed |-> FALSE,
                last |-> <<>>, turn |-> 0]

\* getConn asks the pool for a connection
GetFromPool ==
    /\ \E ok \in BOOLEAN : cl' = [Get(cl, ok) EXCEPT !.turn = 1 - @]
    /\ UNCHANGED traffic

\* the ticker finds the role of the pool's node
TickerSetIsSlave ==
    /\ \E isSlave \in BOOLEAN : cl' = SetIsSlave(cl, isSlave)
    /\ UNCHANGED traffic

\* the ticker finds that the pool's node has left the cluster
TickerClose ==
    /\ cl' = Close(cl)
    /\ UNCHANGED traffic

\* closeConn: the loop closes a connection that the backend has closed or
\* that was asked to close
ConnClosed ==
    /\ \E c \in PoolConns :
          /\ cl.opened[c]
          /\ cl' = [cl EXCEPT !.opened[c] = FALSE, !.closing = @ \ {c}]
    /\ UNCHANGED traffic

NextPool ==
    \/ GetFromPool
    \/ TickerSetIsSlave
    \/ TickerClose
    \/ ConnClosed

SpecPool == InitPool /\ [][NextPool]_vars

\* the connections linked from the back on, by prev
RECURSIVE LinkedBack(_, _, _)
LinkedBack(P, pc, fuel) ==
    IF pc = 0 \/ fuel = 0 THEN {} ELSE {pc} \cup LinkedBack(P, P.prev[pc], fuel - 1)

\* C28: the active list holds at most maxActive connections and its count
\* is the number of linked entries (from the front and from the back); Get
\* dials only when the count was below maxActive or after it had discarded
\* every entry, all of them closed; what Get returns was open when it
\* returned; and Get on a closed pool returns nil
C28_ActiveList ==
    /\ cl.active.count <= cl.maxActive
    /\ cl.active.count = Cardinality(Linked(cl, cl.active.front, MaxPoolConns + 1))
    /\ Linked(cl, cl.active.front, MaxPoolConns + 1)
         = LinkedBack(cl, cl.active.back, MaxPoolConns + 1)
    /\ cl.last # <<>> =>
          /\ cl.last.dialed => \/ cl.last.before < cl.maxActive
                               \/ cl.last.dropped = cl.last.before
          /\ cl.last.c # 0 => cl.last.wasOpen
          /\ cl.last.wasClosed => cl.last.c = 0 /\ ~cl.last.dialed
    /\ cl.closed => cl.active.count = 0

\* a full pool has dropped a closed connection from the back and handed out
\* an open one that was behind it
C28_Rotated ==
    /\ cl.last # <<>>
    /\ cl.maxActive = 2
    /\ cl.last.before = 2
    /\ cl.last.dropped = 1
    /\ ~cl.last.dialed
    /\ cl.last.c # 0
    /\ cl.active.count = 1

\* ------------------------------------------------------------------------
\* The initialization of a connection to a backend, with the bytes of the
\* backend arriving in pieces
\* ------------------------------------------------------------------------
\* what a backend answers to the prelude and to the requests
InitReplies(W, s, q) ==
    IF q = AuthCmd THEN {OK, ErrX, AuthFailedPrefix \o LFCRByte}
    ELSE IF q = ReadOnly THEN {OK, ErrX}
    ELSE PipeReplies(W, s, q)

\* a password is configured or not, and the pools are of masters or of
\* replicas; cl holds the bytes a backend has written that the proxy has not
\* yet read
InitInit ==
    /\ \E isSlave \in BOOLEAN :
          Starts([InitWorld EXCEPT !.pool = [a \in ProxyAddrs |->
                                                [@[a] EXCEPT !.isSlave = isSlave]]])
    /\ agg = NoAgg
    /\ eng = NoEngine
    /\ \E pw \in {Secret, <<>>} : cdc = [NoCodec EXCEPT !.Password = pw]
    /\ cl = [pending |-> [s \in ConnIds |-> <<>>]]

\* the backend answers the oldest command written on connection s
BackendWrite(s) ==
    /\ status = "run"
    /\ sconn[s].opened
    /\ Len(wire[s]) > 0
    /\ \E bs \in InitReplies(World, s, Head(wire[s])) :
          cl' = [cl EXCEPT !.pending[s] = @ \o bs]
    /\ Becomes([World EXCEPT !.wire[s] = Tail(@)])
    /\ UNCHANGED <<agg, cdc, eng>>

\* a read event on connection s with the next byte, or with all the bytes,
\* that the backend has written
ShardChunk(s) ==
    /\ status = "run"
    /\ sconn[s].opened
    /\ Len(cl.pending[s]) > 0
    /\ \E n \in {1, Len(cl.pending[s])}, ok \in BOOLEAN :
          /\ Becomes(elsread([World EXCEPT !.sconn[s].inbound =
                                               @ \o SubSeq(cl.pending[s], 1, n)], s, ok))
          /\ cl' = [cl EXCEPT !.pending[s] = SubSeq(@, n + 1, Len(@))]
    /\ UNCHANGED <<agg, cdc, eng>>

NextInit ==
    \/ \E c \in Clients : ClientRead(c)
    \/ RunTask
    \/ \E s \in ConnIds : BackendWrite(s)
    \/ \E s \in ConnIds : ShardChunk(s)

SpecInit == InitInit /\ [][NextInit]_vars

\* the number of prelude commands of a connection: AUTH when a password is
\* configured, READONLY for the pool of a replica
Prelude(isSlave) == (IF PasswordSet THEN 1 ELSE 0) + (IF isSlave THEN 1 ELSE 0)

\* the bytes connection s holds when the read event of this step is decoded
Received(s) ==
    sconn[s].inbound
      \o SubSeq(cl.pending[s], 1, Len(cl.pending[s]) - Len(cl'.pending[s]))

\* C29: a connection opened with k prelude commands is Initializing with
\* step k (Initialized at once when k = 0). A read event on an Initializing
\* connection makes it Initialized exactly when the bytes it holds start
\* with k times +OK\r\n; then just these bytes are discarded, and when
\* there is nothing behind them no Fragment is dequeued, changed or
\* answered; when the bytes are a proper prefix of the k tokens the
\* connection stays as it is and nothing is consumed
C29_Initializing ==
    [][\A s \in ConnIds :
          /\ (~sconn[s].opened /\ sconn'[s].opened)
                => /\ sconn'[s].initializeStep = Prelude(sconn'[s].isSlave)
                   /\ sconn'[s].initializeStatus =
                         IF Prelude(sconn'[s].isSlave) = 0 THEN "Initialized"
                         ELSE "Initializing"
          /\ (/\ sconn[s].opened
              /\ sconn[s].initializeStatus = "Initializing"
              /\ Len(cl'.pending[s]) < Len(cl.pending[s]))
                => LET k == sconn[s].initializeStep IN
                   /\ k \in {1, 2}
                   /\ sconn'[s].initializeStatus = "Initialized"
                         <=> HasPrefix(Received(s), ShortcutOK[k])
                   /\ sconn'[s].initializeStatus = "Initialized"
                         => \E j \in (k * Len(OK))..Len(Received(s)) :
                               sconn'[s].inbound
                                 = SubSeq(Received(s), j + 1, Len(Received(s)))
                   /\ Received(s) = ShortcutOK[k]
                         => /\ sconn'[s] = [sconn[s] EXCEPT
                                               !.inbound = <<>>,
                                               !.initializeStatus = "Initialized"]
                            /\ frag' = frag /\ msg' = msg /\ cout' = cout
                   /\ (HasPrefix(ShortcutOK[k], Received(s))
                       /\ Received(s) # ShortcutOK[k])
                         => /\ sconn'[s] = [sconn[s] EXCEPT !.inbound = Received(s)]
                            /\ frag' = frag /\ msg' = msg /\ cout' = cout]_vars

\* a connection of a replica's pool with a password configured has read its
\* two +OK and, after them, the answer to a request
C29_Initialized ==
    \E s \in ConnIds :
        /\ sconn[s].opened
        /\ sconn[s].initializeStep = 2
        /\ sconn[s].initializeStatus = "Initialized"
        /\ sconn[s].inbound = <<>>
        /\ cl.pending[s] = <<>>
        /\ \E c \in Clients : Len(cout[c]) > 0

\* C30: when the bytes an Initializing connection holds at a read event are
\* an error line, the engine shuts down if the line is an auth-level error
\* and the connection is closed otherwise; no Fragment gets the line as its
\* reply and no client is sent anything
C30_HardError ==
    [][\A s \in ConnIds :
          (/\ sconn[s].opened
           /\ sconn[s].initializeStatus = "Initializing"
           /\ Len(cl'.pending[s]) < Len(cl.pending[s])
           /\ Received(s) \in {ErrX, AuthFailedPrefix \o LFCRByte})
             => /\ IF Received(s) = ErrX THEN ~sconn'[s].opened
                   ELSE status' = "shutdown"
                /\ \A f \in FragIds : frag'[f].RspBody = frag[f].RspBody
                /\ cout' = cout]_vars

\* ------------------------------------------------------------------------
\* The cluster goroutine fed with replies, with the reply before the last
\* ------------------------------------------------------------------------
\* the cluster state with the reply that came before the last one
withPrev(C, msgs) ==
    [f \in DOMAIN C \cup {"prev"} |-> IF f = "prev" THEN msgs ELSE C[f]]

InitSnapshot ==
    /\ Starts(InitWorld)
    /\ agg = NoAgg
    /\ cdc = NoCodec
    /\ eng = NoEngine
    /\ cl = withPrev(NoCluster, <<>>)

\* a reply to CLUSTER NODES reaches loopClusterNodes
Snapshot ==
    /\ cl.pc = "idle"
    /\ cl.updates < MaxUpdates + 1
    /\ \E msgs \in {HealthyReply(t) : t \in Topologies} \cup SickReplies :
          cl' = [updateClusterNodes(cl, msgs) EXCEPT !.prev = cl.reply]
    /\ UNCHANGED traffic

NextSnapshot ==
    \/ Snapshot
    \/ SetReplicaset
    \/ Ticker

SpecSnapshot == InitSnapshot /\ [][NextSnapshot]_vars

\* the names of the nodes of the node map
PublishedNames(C) == {serverName(C.ServerMap[a]) : a \in DOMAIN C.ServerMap}

\* C31: the same reply twice in a row changes nothing the second time:
\* serverChanged, the node map and the Replicasets stay as they are; a
\* reply whose nodes differ from the node map in an address, a role or a
\* master's slots is taken as a change: the node map becomes the new nodes
\* and setReplicaset and the setting of serverChanged follow
C31_Idempotent ==
    [][cl'.updates = cl.updates + 1
       => /\ (cl.updates > 0 /\ cl'.reply = cl.reply)
                => cl' = [cl EXCEPT !.updates = @ + 1, !.prev = cl.reply]
          /\ (/\ parse(cl, cl'.reply).err = "nil"
              /\ serverNames(parse(cl, cl'.reply).allNodes) # PublishedNames(cl))
                => /\ cl'.pc = "truncate"
                   /\ PublishedNames(cl') = serverNames(parse(cl, cl'.reply).allNodes)]_vars

\* a topology was installed and loaded by the ticker, and the reply that
\* had installed it has come once more
C31_Twice ==
    /\ cl.updates = 2
    /\ cl.prev = cl.reply
    /\ cl.pc = "idle"
    /\ ~cl.serverChanged
    /\ Cardinality(DOMAIN cl.ServerMap) = 3
    /\ \E s \in SlotIds : cl.Slots2Node[s] # 0

\* ------------------------------------------------------------------------
\* The ticker applies topologies whose nodes have different addresses
\* ------------------------------------------------------------------------
AddrD == <<"D">>

\* the first topology, and the same with a new replica D in place of C
Replaced ==
    {<<ClusterNode("a", AddrA, Master, "", <<Slots(0, 0)>>),
       ClusterNode("b", AddrB, Master, "", <<Slots(1, 2)>>),
       ClusterNode("c", AddrC, Slave, "a", <<>>)>>,
     <<ClusterNode("a", AddrA, Master, "", <<Slots(0, 0)>>),
       ClusterNode("b", AddrB, Master, "", <<Slots(1, 2)>>),
       ClusterNode("d", AddrD, Slave, "a", <<>>)>>}

\* a reply to CLUSTER NODES reaches loopClusterNodes
Replace ==
    /\ cl.pc = "idle"
    /\ cl.updates < MaxUpdates + 1
    /\ \E t \in Replaced : cl' = updateClusterNodes(cl, HealthyReply(t))
    /\ UNCHANGED traffic

NextApply ==
    \/ Replace
    \/ SetReplicaset
    \/ Ticker

SpecApply == InitCluster /\ [][NextApply]_vars

\* the addresses of the nodes of replica set rs
AddrsOf(C, rs) ==
    {C.heap[rs].Master.Addr}
      \cup {C.heap[rs].Slaves[k].Addr : k \in 1..Len(C.heap[rs].Slaves)}

\* C32: when the ticker has applied a topology, the addresses with a pool
\* are those of the node map, every pool's isSlave is the role of its
\* node, and every address of a master or a replica that the slot map
\* leads to has a pool, however the updates of the goroutine and the
\* ticker interleave
C32_Applied ==
    [][(cl.serverChanged /\ ~cl'.serverChanged)
       => /\ DOMAIN cl'.ProxyPool = DOMAIN cl'.ServerMap
          /\ \A a \in DOMAIN cl'.ProxyPool :
                cl'.ProxyPool[a].isSlave = (cl'.ServerMap[a].Role = Slave)
          /\ \A s \in SlotIds :
                cl'.Slots2Node[s] # 0
                  => AddrsOf(cl', cl'.Slots2Node[s]) \subseteq DOMAIN cl'.ProxyPool]_vars

\* ------------------------------------------------------------------------
\* A request of two fragments whose replies may be too large
\* ------------------------------------------------------------------------
\* the requests one client may have in flight
MaxLargeMsgs == 2

\* MGET a b has a fragment for backend A and one for backend B
LargeRequests ==
    {[Type |-> "ReqMget", Keys |-> <<"a", "b">>],
     [Type |-> "ReqGet", Keys |-> <<"a">>]}

LargeRead(c) == ClientReadOf(c, LargeRequests, MaxLargeMsgs)

\* what the backends answer: the array of the keys asked for, a bulk that
\* is longer than MsgMaxLength, or, from a backend whose slots are moving to
\* A, a redirection to A
LargeReplies(W, s, q) ==
    IF q = AuthCmd \/ q = ReadOnly THEN {OK}
    ELSE IF W.frag[q].Req.cmd = "ReqMget"
         THEN {MGetReply(W.frag[q].Req.keys, [k \in AggKeys |-> BulkV]), BigBulk}
              \cup {Moved(a) : a \in {AddrA} \ {W.sconn[s].addr}}
    ELSE {BulkV}

\* a read event on backend connection s carrying the answer to the oldest
\* request written on it
LargeShardRead(s) ==
    /\ status = "run"
    /\ sconn[s].opened
    /\ Len(wire[s]) > 0
    /\ \E bs \in LargeReplies(World, s, Head(wire[s])), ok \in BOOLEAN :
          Becomes(elsread([World EXCEPT !.wire[s] = Tail(@),
                                        !.sconn[s].inbound = @ \o bs], s, ok))
    /\ UNCHANGED aux

NextLarge ==
    \/ \E c \in Clients : LargeRead(c)
    \/ RunTask
    \/ \E s \in ConnIds : LargeShardRead(s)

SpecLarge == Init /\ [][NextLarge]_vars

\* fragment f is one of the fragments of the Msg it points to, and that Msg
\* has more than one
OfMulti(f) ==
    /\ frag[f].Owner # 0
    /\ frag[f].Peer # 0
    /\ BodyLen(msg[frag[f].Peer]) > 1
    /\ \E s \in DOMAIN msg[frag[f].Peer].Body : msg[frag[f].Peer].Body[s] = f

\* fragment f is the oldest of a backend connection that is answered in
\* this step
Answered(f) ==
    \E s \in ConnIds :
        /\ Len(sconn[s].inFragQueue) > 0
        /\ Head(sconn[s].inFragQueue) = f
        /\ Len(wire[s]) > 0
        /\ Head(wire[s]) = f
        /\ wire'[s] = Tail(wire[s])

\* C33: when the reply to a fragment of a Message of several fragments is
\* longer than MsgMaxLength, the Message is done at once with `-ERR rsp msg
\* length too large` (kept in the Msg, or written to the client if nothing
\* else is pending) and all its fragments are marked done; a reply that
\* comes later for a fragment that was marked done so is discarded: no Msg
\* changes, nothing is written to a client or to a backend, and the loop
\* goes on
C33_TooLarge ==
    [][\A f \in FragIds :
          /\ (/\ Answered(f) /\ OfMulti(f) /\ ~frag[f].Done
              /\ Len(frag'[f].RspBody) > MsgMaxLength)
                => LET p == frag[f].Peer IN
                   /\ \A s \in DOMAIN msg[p].Body : frag'[msg[p].Body[s]].Done
                   /\ \/ /\ msg'[p].Done
                         /\ msg'[p].RspBody = ErrMsgRspTooLarge
                         /\ msg'[p].FragDoneNumber = BodyLen(msg[p])
                      \/ \E c \in Clients :
                            \E i \in (Len(cout[c]) + 1)..Len(cout'[c]) :
                               cout'[c][i] = [body |-> ErrMsgRspTooLarge, id |-> msg[p].Id]
          /\ (Answered(f) /\ frag[f].Done)
                => /\ msg' = msg
                   /\ cout' = cout
                   /\ status' = "run"
                   /\ \A s \in ConnIds : sconn'[s].outFragQueue = sconn[s].outFragQueue
                   /\ tasks' = tasks]_vars

\* ------------------------------------------------------------------------
\* Replies that arrive in pieces (SRespCodec.Decode, eventloop.sread)
\* ------------------------------------------------------------------------
MaxPartialMsgs == 2

\* no password is configured: a backend connection needs no prelude
InitPartial ==
    /\ Starts(InitWorld)
    /\ agg = NoAgg
    /\ eng = NoEngine
    /\ cdc = [NoCodec EXCEPT !.Password = <<>>]
    /\ cl = [pending |-> [s \in ConnIds |-> <<>>]]

PartialRead(c) ==
    ClientReadOf(c, {[Type |-> "ReqGet", Keys |-> <<"a">>]}, MaxPartialMsgs)

\* the whole replies a backend writes to a GET; none is a prefix of another
Whole == {BulkV, NilBulk, ErrX, Int1}

\* the backend answers the oldest command written on connection s
PartialWrite(s) ==
    /\ status = "run"
    /\ sconn[s].opened
    /\ Len(wire[s]) > 0
    /\ \E bs \in Whole : cl' = [cl EXCEPT !.pending[s] = @ \o bs]
    /\ Becomes([World EXCEPT !.wire[s] = Tail(@)])
    /\ UNCHANGED <<agg, cdc, eng>>

\* a read event on connection s with some of the bytes the backend has written
PartialChunk(s) ==
    /\ status = "run"
    /\ sconn[s].opened
    /\ Len(cl.pending[s]) > 0
    /\ \E n \in 1..Len(cl.pending[s]), ok \in BOOLEAN :
          /\ Becomes(elsread([World EXCEPT !.sconn[s].inbound =
                                               @ \o SubSeq(cl.pending[s], 1, n)], s, ok))
          /\ cl' = [cl EXCEPT !.pending[s] = SubSeq(@, n + 1, Len(@))]
    /\ UNCHANGED <<agg, cdc, eng>>

NextPartial ==
    \/ \E c \in Clients : PartialRead(c)
    \/ RunTask
    \/ \E s \in ConnIds : PartialWrite(s)
    \/ \E s \in ConnIds : PartialChunk(s)

SpecPartial == InitPartial /\ [][NextPartial]_vars

\* no whole reply stands at the front of bs
NoWhole(bs) == \A r \in Whole : ~HasPrefix(bs, r)

\* C34: a read event that leaves the buffered bytes of a backend connection
\* short of a whole reply changes nothing but the buffer: the head of
\* in_frag_queue stays queued and in the timeout index, no byte is consumed;
\* when a whole reply stands in front of further bytes, exactly the bytes of
\* that reply become the reply body of the head Fragment, the Fragment leaves
\* the queue and the timeout index, and the bytes after it stay buffered
C34_Partial ==
    [][\A s \in ConnIds :
          Len(cl'.pending[s]) < Len(cl.pending[s]) =>
             /\ NoWhole(Received(s)) =>
                   /\ sconn' = [sconn EXCEPT ![s].inbound = Received(s)]
                   /\ frag' = frag /\ tree' = tree /\ msg' = msg /\ cout' = cout
                   /\ status' = "run"
             /\ \A r \in Whole :
                   LET rest == SubSeq(Received(s), Len(r) + 1, Len(Received(s))) IN
                   HasPrefix(Received(s), r) /\ NoWhole(rest) =>
                      LET f == Head(sconn[s].inFragQueue) IN
                      /\ frag'[f].RspBody = r
                      /\ sconn'[s].inbound = rest
                      /\ sconn'[s].inFragQueue = Tail(sconn[s].inFragQueue)
                      /\ f \notin tree']_vars

\* a Fragment holds its reply while bytes of the next reply are buffered
C34_Remainder ==
    \E s \in ConnIds, f \in FragIds :
       /\ frag[f].RspBody \in Whole
       /\ Len(sconn[s].inbound) > 0
       /\ Len(sconn[s].inFragQueue) > 0
       /\ status = "run"

\* ------------------------------------------------------------------------
\* Read events whose bytes are not the reply of a queued Fragment
\* ------------------------------------------------------------------------
\* a line whose first byte is none of the RESP markers + - : $ *
Stray == <<"x", CR, LF>>

\* what a backend writes in answer to the oldest command: a reply of
\* InitReplies, or a stray line
StrayReplies(W, s, q) == InitReplies(W, s, q) \cup {Stray}

\* a read event on backend connection s carrying the answer to the oldest
\* command written on it
StrayShardRead(s) ==
    /\ status = "run"
    /\ sconn[s].opened
    /\ Len(wire[s]) > 0
    /\ \E bs \in StrayReplies(World, s, Head(wire[s])), ok \in BOOLEAN :
          Becomes(elsread([World EXCEPT !.wire[s] = Tail(@),
                                        !.sconn[s].inbound = @ \o bs], s, ok))
    /\ UNCHANGED aux

NextStray ==
    \/ \E c \in Clients : ClientRead(c)
    \/ RunTask
    \/ \E s \in ConnIds : StrayShardRead(s)

SpecStray == InitInit /\ [][NextStray]_vars

\* C35: the handling of a read event on a backend connection comes to an
\* end: the loop of eventloop.sread is never left turning over bytes that no
\* iteration consumes
C35_Terminates == status # "hang"

\* ------------------------------------------------------------------------
\* Whose reply a client is sent
\* ------------------------------------------------------------------------
\* the lines the proxy itself answers with
ProxyLines ==
    {PONG, ErrUnKnown, ErrUnKnownCommand, ErrMsgReqTooLarge,
     ErrMsgReqWrongArgumentsNumber, ErrAuthInvalidPassword, ErrAuthNeedNtPassword,
     ErrUnKnownSlot, ErrUnKnownProxyPoolError, ErrUnKnownProxyPoolConnError,
     ErrMsgRspTooLarge, ErrMsgRequestTimeout}

\* C36: what a client is sent for a queued GET is the reply a backend gave to
\* a GET (the bulk), or a line of the proxy; it is never the reply a backend
\* gave to the Fragment of another request (the integer that answers a DEL)
C36_OwnReplies ==
    [][\A c \in Clients : \A i \in (Len(cout[c]) + 1)..Len(cout'[c]) :
          \A o \in Range(cconn[c].inMsgQueue) :
             (msg[o].Id = cout'[c][i].id /\ msg[o].Type = "ReqGet")
                => cout'[c][i].body \in {BulkV} \cup ProxyLines]_vars

\* ------------------------------------------------------------------------
\* loopClusterNodes and the channel it reads from
\* ------------------------------------------------------------------------
MaxPayloads == 3

\* make(chan []byte, 3)
ClusterChanCap == 3

\* the largest length prefix loopClusterNodes accepts
ClusterNodesMaxLength == 163840

\* a payload of clusterChan: `head` is the reply up to the end of its first
\* line, `nodes` the lines of the bulk that follows it
Payload(head, nodes) == [head |-> head, nodes |-> nodes]

\* `$9\r\n` and the lines of a topology
BulkOf(nodes) == Payload(<<"$", "9", CR, LF>>, nodes)

\* replies to CLUSTER NODES that carry no node list: +OK, the nil bulk, an
\* error line, and bulks whose length prefix is above 163840
Unusable ==
    {Payload(OK, <<>>), Payload(NilBulk, <<>>), Payload(ErrX, <<>>),
     Payload(<<"$", "1", "6", "3", "8", "4", "1", CR, LF>>, <<>>)}

\* the cluster state with the goroutine of loopClusterNodes ("run" until it
\* returns), the channel, and the number of payloads the event loop offered
withChan(C) ==
    [f \in DOMAIN C \cup {"loop", "chan", "sent"} |->
        IF f = "loop" THEN "run" ELSE IF f = "chan" THEN <<>>
        ELSE IF f = "sent" THEN 0 ELSE C[f]]

\* one turn of the for loop of loopClusterNodes with the payload p
loopClusterNodes(C, p) ==
    LET h == p.head
        length == parseLen(SubSeq(h, 2, IndexByte(h, LF) - 1))
    IN
    IF Len(h) < 3 THEN [C EXCEPT !.loop = "exit"]
    ELSE IF h[1] = "+" /\ h[2] = "O" /\ h[3] = "K" THEN [C EXCEPT !.loop = "exit"]
    ELSE IF h[1] = "$" /\ h[2] = "-" /\ h[3] = "1" THEN [C EXCEPT !.loop = "exit"]
    ELSE IF length.err # "nil" THEN [C EXCEPT !.loop = "exit"]
    ELSE IF length.n > ClusterNodesMaxLength THEN [C EXCEPT !.loop = "exit"]
    ELSE updateClusterNodes(C, p.nodes)

InitConsume ==
    /\ Starts(InitWorld)
    /\ agg = NoAgg
    /\ cdc = NoCodec
    /\ eng = NoEngine
    /\ cl = withChan(NoCluster)

\* eventloop.sread has decoded the reply to a CLUSTER NODES: it is put on
\* the channel when there is room and dropped otherwise
Deliver ==
    /\ cl.sent < MaxPayloads
    /\ \E p \in {BulkOf(HealthyReply(t)) : t \in Topologies} \cup Unusable :
          cl' = [cl EXCEPT !.sent = @ + 1,
                           !.chan = IF Len(@) < ClusterChanCap THEN Append(@, p) ELSE @]
    /\ UNCHANGED traffic

\* loopClusterNodes receives the next payload
Consume ==
    /\ cl.loop = "run"
    /\ cl.pc = "idle"
    /\ Len(cl.chan) > 0
    /\ cl' = loopClusterNodes([cl EXCEPT !.chan = Tail(@)], Head(cl.chan))
    /\ UNCHANGED traffic

NextConsume ==
    \/ Deliver
    \/ Consume
    \/ SetReplicaset
    \/ Ticker

SpecConsume == InitConsume /\ [][NextConsume]_vars

\* C37: the goroutine of loopClusterNodes is there for as long as the engine
\* runs, whatever payloads it has received
C37_Consuming == cl.loop = "run"

\* C38: a Fragment is written to a backend only while the client has not
\* been sent a reply for the Message the Fragment belongs to
C38_NoLateWrite ==
    [][\A s \in ConnIds : \A k \in (Len(wire[s]) + 1)..Len(wire'[s]) :
          wire'[s][k] \in FragIds
             => ~\E c \in Clients : \E i \in 1..Len(cout[c]) :
                   cout[c][i].id = msg[frag[wire'[s][k]].Peer].Id]_vars

\* ------------------------------------------------------------------------
\* MGET Fragments answered with an error line
\* ------------------------------------------------------------------------
\* what the backends answer: to an MGET Fragment the array of the keys asked
\* for or an error line that is no redirection
MgetReplies(W, s, q) ==
    IF q = AuthCmd \/ q = ReadOnly THEN {OK}
    ELSE IF W.frag[q].Req.cmd = "ReqMget"
         THEN {MGetReply(W.frag[q].Req.keys, [k \in AggKeys |-> BulkV]), ErrX}
    ELSE {BulkV}

\* a read event on backend connection s carrying the answer to the oldest
\* request written on it
MgetShardRead(s) ==
    /\ status = "run"
    /\ sconn[s].opened
    /\ Len(wire[s]) > 0
    /\ \E bs \in MgetReplies(World, s, Head(wire[s])), ok \in BOOLEAN :
          Becomes(elsread([World EXCEPT !.wire[s] = Tail(@),
                                        !.sconn[s].inbound = @ \o bs], s, ok))
    /\ UNCHANGED aux

NextMget ==
    \/ \E c \in Clients : LargeRead(c)
    \/ RunTask
    \/ \E s \in ConnIds : MgetShardRead(s)

SpecMget == Init /\ [][NextMget]_vars

\* C39: the read event in which an MGET Fragment gets an error line as its
\* reply leaves the event loop running
C39_MgetError ==
    [][\A f \in FragIds :
          (/\ frag[f].Req # <<>>
           /\ frag[f].Req.cmd = "ReqMget"
           /\ frag[f].RspBody # ErrX
           /\ frag'[f].RspBody = ErrX)
             => status' = "run"]_vars

====
